---- MODULE Spec2Model ----
(***************************************************************************)
(* Operation history tree (ActionManager) and agent loop (LLMIDEAgent) of  *)
(* debugmaster.agents.llm_ide.                                             *)
(*                                                                         *)
(* Nodes are identified by the order of their construction: node k is the  *)
(* k-th OperationNode built by create_temp_node (its index in _all_nodes), *)
(* node 0 is the root sentinel built by ActionManager.__init__.  Python    *)
(* object identity (`is`) is equality of these identifiers.                *)
(*                                                                         *)
(* The specifications share the variables:                                 *)
(*   Spec        the ActionManager driven by a caller;                     *)
(*   SpecBridge  the version-control helpers and the ActionManager driven  *)
(*               by a caller, the sandbox's git primitives doing what the  *)
(*               sandbox contract says;                                    *)
(*   SpecAgent   LLMIDEAgent.run (FairSpecAgent: run keeps executing);     *)
(*   SpecContext the CodeContextManager driven by a caller;                *)
(*   SpecTools   the code chunks of the tool dispatcher and of the prompt  *)
(*               on an ActionManager driven by a caller.                   *)
(*   SpecCache   the CodeContextManager with its caches, driven by a       *)
(*               caller on a sandbox whose files are written to.           *)
(* SpecAgent follows run without the code chunks its commands load.        *)
(***************************************************************************)
EXTENDS Integers, Sequences, FiniteSets, TLC

\* ---------------------------------------------------------------- bounds
\* Largest number of OperationNodes create_temp_node may build in a run.
MaxNodes == 4
\* Largest max_invalid handed to ActionManager.__init__.
MaxInvalidArg == 2
\* Largest config.step_limit; a run without a step limit (step_limit = 0) is
\* followed for one model query less.
StepLimit == 2
\* Largest window_size handed to get_nearby_code_context.
MaxWindow == 6
\* Largest line number handed to get_nearby_code_context and get_code_lines.
MaxLine == 10
\* Largest number of chunks handed to render, and of chunks attached to the
\* nodes of a tree.
MaxChunks == 2

\* ------------------------------------------------------------- constants
\* The value of a reference that holds no node (Python None).
None == -1
\* The root sentinel, self._sentinel.
Sentinel == 0

EXPLORATORY == "exploratory"
EXPLOITATIVE == "exploitative"
\* The values create_temp_node accepts for action_property (None: no property).
ActionProperty == {EXPLORATORY, EXPLOITATIVE, "none"}

\* The dead-path summaries backtrack_to is called with.
Summaries == {"s1", "s2"}

\* The working-tree diffs `git diff HEAD` can print ("": the tree equals HEAD).
Diffs == {"", "patch-A"}
\* The diffs the working tree can show after an edit made behind the agent's back.
Edits == Diffs \cup {"patch-B"}

\* What the parser makes of a model response: the <decision> tag (lower-cased,
\* "" when absent), the number of non-empty <action> blocks, the <property>
\* tag as ActionProperty(...) reads it ("none" when it is no ActionProperty).
\* The responses followed carry <property>exploratory</property> or none.
Responses ==
    [ decision : {"accept", "reject", ""},
      n_actions : {0, 1, 2},
      property : {EXPLORATORY, "none"} ]

\* config.cost_limit (0: no cost budget) and what one model query costs.
CostLimits == {0, 1}
Costs == {1}

\* The two submission lines _check_submission looks for.
SubmissionLines == {"MINI_SWE_AGENT_FINAL_OUTPUT", "COMPLETE_TASK_AND_SUBMIT_FINAL_OUTPUT"}

\* Lines a command can print: blank ones, the submission lines, other text.
\* Strip is str.strip() on them.
Blank == {"", "  "}
Strip(l) == IF l \in Blank THEN "" ELSE l

\* The outputs of sandbox commands, as sequences of lines.
Outputs ==
    { <<"text">>,
      <<"text", "MINI_SWE_AGENT_FINAL_OUTPUT">>,
      <<"", "  ", "MINI_SWE_AGENT_FINAL_OUTPUT", "answer", "body">>,
      <<"COMPLETE_TASK_AND_SUBMIT_FINAL_OUTPUT">> }

\* What env.execute(command) can do: raise a timeout, or return an output, a
\* return code, and in the output's last <tool-response> a returncode (None:
\* no tool response, or none with a returncode).
ExecResults ==
    [ output : Outputs, returncode : {0, 1}, tool_returncode : {None, 0, 1} ]

\* How _execute_command answers one action: a built-in tool handles it, the
\* sandbox times out, or the sandbox returns.
Outcomes == {"builtin", "timeout", "returned"}

\* The lines whose context the chunks handed to render were asked for.
AnchorLines == {4, 6, 9}

\* The sample files (their texts are given with the CodeContextManager below).
Paths == {"a.py", "b.py", "c.py", "e.py"}

VARIABLES
    nodes,        \* node id -> OperationNode fields, for every node built so far
    all_nodes,    \* ActionManager._all_nodes
    current,      \* ActionManager.current
    temp_node,    \* ActionManager._temp_node (None when no node is pending)
    max_invalid,  \* ActionManager.max_invalid
    lastOp,       \* the last call: its name, arguments, result
    pc,              \* where LLMIDEAgent.run stands
    step_limit,      \* config.step_limit
    cost_limit,      \* config.cost_limit
    n_calls,         \* model.n_calls
    cost,            \* model.cost
    n_operations,    \* LLMIDEAgent.n_operations
    messages,        \* LLMIDEAgent.messages
    sent,            \* step's local messages: what model.query is called with
    has_incoming_op, \* step's local has_incoming_op
    content,         \* step's local content: the parsed model response
    todo,            \* _execute_actions: the actions not executed yet
    observations,    \* _execute_actions' local observations
    worktree,        \* the sandbox's working-tree diff against HEAD
    exit_status,     \* how run ended ("" while it runs)
    code_context_manager, \* LLMIDEAgent.code_context_manager: cwd and the caches
    default_code_chunks,  \* LLMIDEAgent.default_code_chunks
    files,           \* the sandbox's files: what get_file gives for a path
    reads            \* the paths get_file was called with, in order

treeVars == <<nodes, all_nodes, current, temp_node, max_invalid>>
contextVars == <<code_context_manager, default_code_chunks, files, reads>>
agentVars == <<pc, step_limit, cost_limit, n_calls, cost, n_operations, messages,
               sent, has_incoming_op, content, todo, observations, worktree,
               exit_status, contextVars>>
vars == <<nodes, all_nodes, current, temp_node, max_invalid, lastOp,
          pc, step_limit, cost_limit, n_calls, cost, n_operations, messages,
          sent, has_incoming_op, content, todo, observations, worktree,
          exit_status, code_context_manager, default_code_chunks, files, reads>>

\* ------------------------------------------------------------ OperationNode
OperationNode(p) ==
    [ action_property     |-> p,
      valid               |-> "null",
      dead_path           |-> FALSE,
      dead_path_summaries |-> <<>>,
      invalid_ops         |-> <<>>,
      parent              |-> None,
      children            |-> <<>>,
      observations        |-> <<>>,
      code_change         |-> "",
      code_chunks         |-> <<>> ]

\* Elements of a sequence.
Range(s) == { s[i] : i \in 1..Len(s) }

Reverse(s) == [ i \in 1..Len(s) |-> s[Len(s) + 1 - i] ]

\* The ActionManager object: its fields as one record.  The methods below take
\* the object as `am` (Python's self) and give the object after the call.
AM ==
    [ nodes       |-> nodes,
      all_nodes   |-> all_nodes,
      current     |-> current,
      temp_node   |-> temp_node,
      max_invalid |-> max_invalid ]

\* -------------------------------------------------------------- properties
\* has_pending_node that never sees the pending node.
has_pending_node_never(am) == FALSE

has_pending_node(am) == am.temp_node # None

has_real_current(am) == am.current # Sentinel

active_node(am) ==
    IF am.temp_node # None THEN am.temp_node
    ELSE IF has_real_current(am) THEN am.current ELSE None

\* ----------------------------------------------------------------- queries
\* The walk that takes the first ancestor whatever its property.
WalkToAnyAncestor(am, n) ==
    IF n = None \/ n = Sentinel THEN None ELSE n

\* Loop of find_backtrack_target, entered at `n`.
RECURSIVE WalkToExploratory(_, _)
WalkToExploratory(am, n) ==
    IF n = None \/ n = Sentinel THEN None
    ELSE IF am.nodes[n].action_property = EXPLORATORY THEN n
    ELSE WalkToExploratory(am, am.nodes[n].parent)

\* find_backtrack_target that starts the walk at current itself.
find_backtrack_target_from_current(am) == WalkToExploratory(am, am.current)

find_backtrack_target(am) == WalkToExploratory(am, am.nodes[am.current].parent)

\* Loop of get_path_to: the walk from `n` up to the sentinel, `n` first.
RECURSIVE WalkToRoot(_, _)
WalkToRoot(am, n) ==
    IF n = None \/ n = Sentinel THEN <<>>
    ELSE <<n>> \o WalkToRoot(am, am.nodes[n].parent)

\* get_path_to without the final reverse.
get_path_to_unreversed(am, target) == WalkToRoot(am, target)

get_path_to(am, target) == Reverse(WalkToRoot(am, target))

get_path_from_root_to_current(am) ==
    IF am.current = Sentinel THEN <<>> ELSE get_path_to(am, am.current)

\* Loop of get_rejected_actions: the invalid_ops of the nodes of `path`, in order.
RECURSIVE ExtendInvalid(_, _)
ExtendInvalid(am, path) ==
    IF path = <<>> THEN <<>>
    ELSE am.nodes[Head(path)].invalid_ops \o ExtendInvalid(am, Tail(path))

get_rejected_actions(am) == ExtendInvalid(am, get_path_from_root_to_current(am))

\* The filter that keeps dead children too.
LiveUnfiltered(am, seq) == seq

\* [c for c in seq if not c.dead_path]
Live(am, seq) == SelectSeq(seq, LAMBDA c : ~am.nodes[c].dead_path)

\* [c for c in seq if c.children]
WithChildren(am, seq) == SelectSeq(seq, LAMBDA c : am.nodes[c].children # <<>>)

\* Loop of get_reasoning_chain, entered at `n`.
RECURSIVE Descend(_, _)
Descend(am, n) ==
    LET live_children == Live(am, am.nodes[n].children)
        children_with_children == WithChildren(am, live_children)
    IN  <<n>> \o
        ( IF children_with_children # <<>>
          THEN Descend(am, children_with_children[1])
          ELSE IF live_children # <<>>
          THEN Descend(am, live_children[Len(live_children)])
          ELSE <<>> )

get_reasoning_chain(am) ==
    LET live_roots == Live(am, am.nodes[Sentinel].children)
    IN  IF live_roots = <<>> THEN <<>>
        ELSE LET chain == Descend(am, live_roots[1])
             IN  IF has_real_current(am) /\ am.current \notin Range(chain)
                 THEN Append(chain, am.current)
                 ELSE chain

\* ----------------------------------------------------------------- methods
create_temp_node(am, p) ==
    LET node == Len(am.all_nodes) + 1
    IN  [am EXCEPT !.nodes = @ @@ (node :> OperationNode(p)),
                   !.temp_node = node,
                   !.all_nodes = Append(@, node)]

\* commit_admissible that puts the node first among the children.
commit_admissible_prepend(am) ==
    LET node == am.temp_node
    IN  IF node = None THEN am
        ELSE [am EXCEPT !.nodes = [@ EXCEPT ![node].parent = am.current,
                                            ![am.current].children = <<node>> \o @],
                        !.current = node,
                        !.temp_node = None]

\* commit_admissible that links the node and leaves current where it was.
commit_admissible_stay(am) ==
    LET node == am.temp_node
    IN  IF node = None THEN am
        ELSE [am EXCEPT !.nodes = [@ EXCEPT ![node].parent = am.current,
                                            ![am.current].children = Append(@, node)],
                        !.temp_node = None]

commit_admissible(am) ==
    LET node == am.temp_node
    IN  IF node = None THEN am
        ELSE [am EXCEPT !.nodes = [@ EXCEPT ![node].parent = am.current,
                                            ![am.current].children = Append(@, node)],
                        !.current = node,
                        !.temp_node = None]

\* commit_invalid that reports overflow one rejection late.
commit_invalid_late(am) ==
    LET node == am.temp_node
        after == [am EXCEPT !.nodes = [@ EXCEPT ![node].parent = am.current,
                                                ![am.current].invalid_ops = Append(@, node)],
                            !.temp_node = None]
    IN  IF node = None THEN [am |-> am, ret |-> FALSE]
        ELSE [am  |-> after,
              ret |-> Len(after.nodes[after.current].invalid_ops) > am.max_invalid]

\* commit_invalid: the object after the call and the value returned.
commit_invalid(am) ==
    LET node == am.temp_node
        after == [am EXCEPT !.nodes = [@ EXCEPT ![node].parent = am.current,
                                                ![am.current].invalid_ops = Append(@, node)],
                            !.temp_node = None]
    IN  IF node = None THEN [am |-> am, ret |-> FALSE]
        ELSE [am  |-> after,
              ret |-> Len(after.nodes[after.current].invalid_ops) >= am.max_invalid]

set_observation(am, obs) ==
    IF am.temp_node # None
    THEN [am EXCEPT !.nodes = [@ EXCEPT ![am.temp_node].observations = obs]]
    ELSE am

\* set_reflection that records every reflected node as valid.
set_reflection_accepting(am, valid) ==
    IF am.temp_node # None
    THEN [am EXCEPT !.nodes = [@ EXCEPT ![am.temp_node].valid = TRUE]]
    ELSE am

set_reflection(am, valid) ==
    IF am.temp_node # None
    THEN [am EXCEPT !.nodes = [@ EXCEPT ![am.temp_node].valid = valid]]
    ELSE am

\* First loop of backtrack_to: from `n` up to the node whose parent is `target`
\* (None when the walk runs off the top of the tree).
RECURSIVE ChildOnPath(_, _, _)
ChildOnPath(am, n, target) ==
    IF n = None THEN None
    ELSE IF am.nodes[n].parent = target THEN n
    ELSE ChildOnPath(am, am.nodes[n].parent, target)

\* backtrack_to that flags every node from current up to target's child.
backtrack_to_flag_branch(am, target, s) ==
    LET branch == Range(WalkToRoot(am, am.current)) \ Range(WalkToRoot(am, target))
        marked == [ n \in DOMAIN am.nodes |->
                      IF n \in branch THEN [am.nodes[n] EXCEPT !.dead_path = TRUE]
                      ELSE am.nodes[n] ]
    IN  [am EXCEPT !.nodes = [marked EXCEPT ![target].dead_path_summaries = Append(@, s)],
                   !.current = target]

\* backtrack_to that flags current instead of walking up to target's child.
backtrack_to_flag_current(am, target, s) ==
    LET marked == [am.nodes EXCEPT ![am.current].dead_path = TRUE]
    IN  [am EXCEPT !.nodes = [marked EXCEPT ![target].dead_path_summaries = Append(@, s)],
                   !.current = target]

\* backtrack_to that moves current and flags no node.
backtrack_to_no_flag(am, target, s) ==
    [am EXCEPT !.nodes = [@ EXCEPT ![target].dead_path_summaries = Append(@, s)],
               !.current = target]

backtrack_to(am, target, s) ==
    LET node == ChildOnPath(am, am.current, target)
        marked == IF node # None THEN [am.nodes EXCEPT ![node].dead_path = TRUE]
                  ELSE am.nodes
    IN  [am EXCEPT !.nodes = [marked EXCEPT ![target].dead_path_summaries = Append(@, s)],
                   !.current = target]

\* --------------------------------------------------------------------- Init
\* The response of a step that has not queried the model yet.
NoContent == [decision |-> "", n_actions |-> 0, property |-> "none"]

\* ActionManager.__init__
InitTree ==
    /\ nodes = (Sentinel :> OperationNode("none"))
    /\ all_nodes = <<>>
    /\ current = Sentinel
    /\ temp_node = None
    /\ max_invalid \in 1..MaxInvalidArg
    /\ lastOp = [op |-> "init"]

\* CodeContextManager.__init__
NewCodeContextManager(cwd) == [cwd |-> cwd, file_cache |-> <<>>, parse_cache |-> <<>>]

\* A sandbox that holds the sample files and is not written to, a manager
\* without working directory: a file's path tells its text.
InitCodeContext ==
    /\ code_context_manager = NewCodeContextManager("")
    /\ default_code_chunks = <<>>
    /\ files = [p \in Paths |-> p]
    /\ reads = <<>>

\* LLMIDEAgent.__init__, the model's counters, a sandbox at HEAD.
InitStep ==
    /\ pc = "top"
    /\ n_calls = 0
    /\ cost = 0
    /\ n_operations = 0
    /\ messages = <<>>
    /\ sent = <<>>
    /\ has_incoming_op = FALSE
    /\ content = NoContent
    /\ todo = <<>>
    /\ observations = <<>>
    /\ worktree = ""
    /\ exit_status = ""

InitRun == InitStep /\ InitCodeContext

\* An ActionManager of its own, no budget configured.
Init ==
    /\ InitTree
    /\ InitRun
    /\ step_limit = 0
    /\ cost_limit = 0

\* An agent about to run, with the budgets of its config.
InitAgent ==
    /\ InitTree
    /\ InitRun
    /\ step_limit \in 0..StepLimit
    /\ cost_limit \in CostLimits

\* The ActionManager object becomes `am`.
SetAM(am) ==
    /\ nodes' = am.nodes
    /\ all_nodes' = am.all_nodes
    /\ current' = am.current
    /\ temp_node' = am.temp_node
    /\ max_invalid' = am.max_invalid

\* ------------------------------------------ ActionManager driven by a caller
CreateTempNode ==
    /\ Len(all_nodes) < MaxNodes
    /\ \E p \in ActionProperty :
          /\ SetAM(create_temp_node(AM, p))
          /\ lastOp' = [op |-> "create_temp_node", pending |-> temp_node,
                        error |-> "none"]
    /\ UNCHANGED agentVars

CommitAdmissible ==
    /\ SetAM(commit_admissible(AM))
    /\ lastOp' = [op |-> "commit_admissible", pending |-> temp_node,
                  path_before |-> get_path_from_root_to_current(AM)]
    /\ UNCHANGED agentVars

CommitInvalid ==
    /\ SetAM(commit_invalid(AM).am)
    /\ lastOp' = [op |-> "commit_invalid", pending |-> temp_node,
                  ret |-> commit_invalid(AM).ret]
    /\ UNCHANGED agentVars

FindBacktrackTarget ==
    /\ lastOp' = [op |-> "find_backtrack_target", ret |-> find_backtrack_target(AM)]
    /\ UNCHANGED treeVars
    /\ UNCHANGED agentVars

\* backtrack_to, called with the node find_backtrack_target returns.
BacktrackTo ==
    /\ find_backtrack_target(AM) # None
    /\ \E s \in Summaries :
          /\ SetAM(backtrack_to(AM, find_backtrack_target(AM), s))
          /\ lastOp' = [op |-> "backtrack_to", target |-> find_backtrack_target(AM),
                        summary |-> s]
    /\ UNCHANGED agentVars

Next ==
    \/ CreateTempNode
    \/ CommitAdmissible
    \/ CommitInvalid
    \/ FindBacktrackTarget
    \/ BacktrackTo

Spec == Init /\ [][Next]_vars

\* --------------------------------------------------------------- LLMIDEAgent
\* The exception classes of debugmaster.agents.default that run handles.
NonTerminatingException == {"FormatError", "ExecutionTimeoutError"}
TerminatingException == {"Submitted", "LimitsExceeded"}

\* DefaultAgent.add_message
add_message(msgs, role, text) == Append(msgs, [role |-> role, content |-> text])

\* The locals of step and _execute_actions, gone when step returns or raises.
DropLocals ==
    /\ sent' = <<>>
    /\ has_incoming_op' = FALSE
    /\ content' = NoContent
    /\ todo' = <<>>
    /\ observations' = <<>>

\* The handlers of run: step raised exception `e` whose str() is `text`.  An
\* exception of neither class leaves run.
Raised(e, text) ==
    /\ DropLocals
    /\ IF e \in NonTerminatingException
       THEN /\ messages' = add_message(messages, "user", text)
            /\ pc' = "top"
            /\ UNCHANGED exit_status
       ELSE IF e \in TerminatingException
       THEN /\ messages' = add_message(messages, "user", text)
            /\ pc' = "exited"
            /\ exit_status' = e
       ELSE /\ UNCHANGED messages
            /\ pc' = "exited"
            /\ exit_status' = e

\* _check_limits looking at the cost only.
LimitsExceeded_cost_only == 0 < cost_limit /\ cost_limit <= cost

\* _check_limits letting one call more through.
LimitsExceeded_late ==
    \/ 0 < step_limit /\ step_limit < n_calls
    \/ 0 < cost_limit /\ cost_limit < cost

\* _check_limits
LimitsExceeded ==
    \/ 0 < step_limit /\ step_limit <= n_calls
    \/ 0 < cost_limit /\ cost_limit <= cost

\* _build_system_message with the reflection instructions in every prompt.
build_system_message_reflecting(incoming) ==
    <<"general_input", "reflection_instructions", "action_instructions", "response_format">>

\* _build_system_message and _build_user_message, by the sections they hold.
build_system_message(incoming) ==
    IF incoming THEN <<"general_input", "reflection_instructions",
                       "action_instructions", "response_format">>
    ELSE <<"general_input", "action_instructions", "response_format">>

build_user_message(incoming) ==
    IF incoming THEN <<"code_context", "rejected_operations", "version_control",
                       "operation_history", "incoming_operation">>
    ELSE <<"code_context", "rejected_operations", "version_control",
           "operation_history">>

\* step, up to the model query: the budget check and the prompt.
StepBegin ==
    /\ pc = "top"
    /\ IF LimitsExceeded
       THEN /\ Raised("LimitsExceeded", <<>>)
       ELSE /\ pc' = "query"
            /\ has_incoming_op' = has_pending_node(AM)
            /\ LET system_message == build_system_message(has_pending_node(AM))
                   user_message == build_user_message(has_pending_node(AM))
               IN  /\ messages' = add_message(add_message(messages, "system", system_message),
                                              "user", user_message)
                   /\ sent' = << [role |-> "system", content |-> system_message],
                                 [role |-> "user", content |-> user_message] >>
            /\ UNCHANGED <<exit_status, content, todo, observations>>
    /\ lastOp' = [op |-> "step"]
    /\ UNCHANGED <<treeVars, step_limit, cost_limit, n_calls, cost, n_operations,
                   worktree>>
    /\ UNCHANGED contextVars

\* self.model.query(messages) and the assistant message.  A run is followed
\* for StepLimit queries and no further (one less without a step limit).
ModelQuery ==
    /\ pc = "query"
    /\ step_limit = 0 => n_calls < StepLimit - 1
    /\ n_calls <= StepLimit
    /\ n_calls' = n_calls + 1
    /\ \E c \in Costs : cost' = cost + c
    /\ content' \in Responses
    /\ messages' = add_message(messages, "assistant", <<"response">>)
    /\ pc' = "respond"
    /\ lastOp' = [op |-> "query", sent |-> sent]
    /\ UNCHANGED <<treeVars, step_limit, cost_limit, n_operations, sent,
                   has_incoming_op, todo, observations, worktree, exit_status>>
    /\ UNCHANGED contextVars

\* The sandbox's three git primitives on the working tree, which its diff
\* against HEAD stands for.  A patch taken against HEAD applies to HEAD only.
get_git_diff(tree) == tree
reset_and_clean(tree) == ""
apply_patch(tree, diff) == IF tree = "" THEN diff ELSE tree

\* _sync_version_control resetting the tree without applying the patch.
sync_version_control_no_apply(am, tree) ==
    IF ~has_real_current(am) THEN tree
    ELSE LET code_change == am.nodes[am.current].code_change
         IN  IF get_git_diff(tree) = code_change THEN tree
             ELSE reset_and_clean(tree)

\* _sync_version_control applying the patch without resetting the tree.
sync_version_control_no_reset(am, tree) ==
    IF ~has_real_current(am) THEN tree
    ELSE LET code_change == am.nodes[am.current].code_change
         IN  IF get_git_diff(tree) = code_change THEN tree
             ELSE IF code_change # "" THEN apply_patch(tree, code_change)
             ELSE tree

\* _sync_version_control on the tree `am`: the working tree it leaves.
sync_version_control(am, tree) ==
    IF ~has_real_current(am) THEN tree
    ELSE LET code_change == am.nodes[am.current].code_change
         IN  IF get_git_diff(tree) = code_change THEN tree
             ELSE IF code_change # "" THEN apply_patch(reset_and_clean(tree), code_change)
             ELSE reset_and_clean(tree)

\* The commands _get_git_diff, the reset and _apply_patch hand to env.execute.
GitDiff == <<"git add -N .", "git --no-pager diff HEAD">>
GitReset == <<"git reset --hard HEAD && git clean -fd">>
GitApply == <<"git apply">>

\* _sync_version_control resetting the tree whether or not the diffs differ.
sync_commands_always_reset(am, tree) ==
    IF ~has_real_current(am) THEN <<>>
    ELSE LET code_change == am.nodes[am.current].code_change
         IN  GitDiff \o GitReset \o (IF code_change # "" THEN GitApply ELSE <<>>)

\* _sync_version_control on the tree `am`: the commands it hands to env.execute,
\* in order.
sync_commands(am, tree) ==
    IF ~has_real_current(am) THEN <<>>
    ELSE LET code_change == am.nodes[am.current].code_change
         IN  IF get_git_diff(tree) = code_change THEN GitDiff
             ELSE GitDiff \o GitReset \o (IF code_change # "" THEN GitApply ELSE <<>>)

\* _process_reflection
ProcessReflection ==
    /\ pc = "respond"
    /\ has_incoming_op
    /\ LET valid == content.decision # "reject"
           reflected == set_reflection(AM, valid)
           invalid == commit_invalid(reflected)
       IN  IF valid
           THEN /\ SetAM(commit_admissible(reflected))
                /\ worktree' = sync_version_control(commit_admissible(reflected), worktree)
                /\ pc' = "action"
                /\ lastOp' = [op |-> "_process_reflection", pending |-> temp_node,
                              valid |-> TRUE, overflow |-> FALSE, target |-> None]
                /\ UNCHANGED <<exit_status, messages, sent, has_incoming_op, content,
                               todo, observations>>
           ELSE /\ SetAM(invalid.am)
                /\ UNCHANGED worktree
                /\ lastOp' = [op |-> "_process_reflection", pending |-> temp_node,
                              valid |-> FALSE, overflow |-> invalid.ret,
                              target |-> find_backtrack_target(invalid.am)]
                /\ IF invalid.ret
                   THEN Raised("NotImplementedError", <<"not yet implemented">>)
                   ELSE /\ pc' = "action"
                        /\ UNCHANGED <<exit_status, messages, sent, has_incoming_op,
                                       content, todo, observations>>
    /\ UNCHANGED <<step_limit, cost_limit, n_calls, cost, n_operations>>
    /\ UNCHANGED contextVars

\* _process_action building the temp node before it looks for actions.
ProcessAction_create_first ==
    /\ \/ pc = "respond" /\ ~has_incoming_op
       \/ pc = "action"
    /\ SetAM(create_temp_node(AM, content.property))
    /\ n_operations' = n_operations + 1
    /\ IF content.n_actions = 0
       THEN /\ Raised("FormatError", <<"format_error_template">>)
            /\ lastOp' = [op |-> "_process_action", error |-> "FormatError"]
       ELSE /\ todo' = [i \in 1..content.n_actions |-> i]
            /\ observations' = <<>>
            /\ pc' = "exec"
            /\ lastOp' = [op |-> "_process_action", error |-> "none"]
            /\ content' = NoContent
            /\ UNCHANGED <<has_incoming_op, messages, sent, exit_status>>
    /\ UNCHANGED <<step_limit, cost_limit, n_calls, cost, worktree>>
    /\ UNCHANGED contextVars

\* _process_action, up to the first command.  Nothing reads content after it.
ProcessAction ==
    /\ \/ pc = "respond" /\ ~has_incoming_op
       \/ pc = "action"
    /\ IF content.n_actions = 0
       THEN /\ Raised("FormatError", <<"format_error_template">>)
            /\ lastOp' = [op |-> "_process_action", error |-> "FormatError"]
            /\ UNCHANGED <<treeVars, n_operations>>
       ELSE /\ SetAM(create_temp_node(AM, content.property))
            /\ n_operations' = n_operations + 1
            /\ todo' = [i \in 1..content.n_actions |-> i]
            /\ observations' = <<>>
            /\ pc' = "exec"
            /\ lastOp' = [op |-> "_process_action", error |-> "none"]
            /\ content' = NoContent
            /\ UNCHANGED <<has_incoming_op, messages, sent, exit_status>>
    /\ UNCHANGED <<step_limit, cost_limit, n_calls, cost, worktree>>
    /\ UNCHANGED contextVars

\* str.lstrip() on an output: the blank lines at its start go.
RECURSIVE LStrip(_)
LStrip(lines) ==
    IF lines # <<>> /\ Strip(Head(lines)) = "" THEN LStrip(Tail(lines)) ELSE lines

\* _check_submission looking at the very first line only.
check_submission_no_lstrip(output) ==
    IF output # <<>> /\ Strip(Head(output)) \in SubmissionLines
    THEN [raised |-> TRUE, message |-> Tail(output)]
    ELSE [raised |-> FALSE, message |-> <<>>]

\* _check_submission: whether it raises Submitted, and with what message.
check_submission(output) ==
    LET lines == LStrip(output)
    IN  IF lines # <<>> /\ Strip(Head(lines)) \in SubmissionLines
        THEN [raised |-> TRUE, message |-> Tail(lines)]
        ELSE [raised |-> FALSE, message |-> <<>>]

\* _process_tool_response: the return code it gives the action.
process_tool_response(raw) ==
    IF raw.tool_returncode = None THEN raw.returncode ELSE raw.tool_returncode

\* The loop of _execute_actions returning the observations without the diff
\* capture after it.
Observe_no_capture(raw) ==
    LET returncode == process_tool_response(raw)
    IN  /\ observations' = Append(observations,
                                  [action |-> Head(todo), returncode |-> returncode])
        /\ todo' = IF returncode # 0 THEN <<>> ELSE Tail(todo)
        /\ pc' = IF returncode # 0 \/ Tail(todo) = <<>> THEN "observe" ELSE "exec"
        /\ UNCHANGED <<exit_status, messages, sent, has_incoming_op, content>>

\* The body of the loop of _execute_actions once _execute_command returned `raw`.
Observe(raw) ==
    LET returncode == process_tool_response(raw)
    IN  /\ observations' = Append(observations,
                                  [action |-> Head(todo), returncode |-> returncode])
        /\ todo' = IF returncode # 0 THEN <<>> ELSE Tail(todo)
        /\ pc' = IF returncode # 0 \/ Tail(todo) = <<>> THEN "capture" ELSE "exec"
        /\ UNCHANGED <<exit_status, messages, sent, has_incoming_op, content>>

\* One turn of the loop of _execute_actions: _execute_command on the next action.
ExecuteCommand ==
    /\ pc = "exec"
    /\ todo # <<>>
    /\ \E outcome \in Outcomes :
          CASE outcome = "builtin" ->
                    /\ Observe([output |-> <<"text">>, returncode |-> 0,
                                tool_returncode |-> None])
                    /\ UNCHANGED worktree
                    /\ lastOp' = [op |-> "_execute_command", outcome |-> outcome,
                                  action |-> Head(todo), done |-> observations,
                                  output |-> <<"text">>]
            [] outcome = "timeout" ->
                    /\ worktree' \in Diffs
                    /\ Raised("ExecutionTimeoutError", <<"timeout_template">>)
                    /\ lastOp' = [op |-> "_execute_command", outcome |-> outcome,
                                  action |-> Head(todo), done |-> observations,
                                  output |-> <<>>]
            [] outcome = "returned" ->
                    \E raw \in ExecResults :
                        /\ worktree' \in Diffs
                        /\ IF check_submission(raw.output).raised
                           THEN Raised("Submitted", check_submission(raw.output).message)
                           ELSE Observe(raw)
                        /\ lastOp' = [op |-> "_execute_command", outcome |-> outcome,
                                      action |-> Head(todo), done |-> observations,
                                      output |-> raw.output]
    /\ UNCHANGED <<treeVars, step_limit, cost_limit, n_calls, cost, n_operations>>
    /\ UNCHANGED contextVars

\* The end of _execute_actions: the diff goes into the active node.
CaptureDiff ==
    /\ pc = "capture"
    /\ LET active == active_node(AM)
       IN  SetAM(IF active # None
                 THEN [AM EXCEPT !.nodes = [@ EXCEPT ![active].code_change =
                                                        get_git_diff(worktree)]]
                 ELSE AM)
    /\ pc' = "observe"
    /\ lastOp' = [op |-> "_execute_actions", done |-> observations]
    /\ UNCHANGED <<step_limit, cost_limit, n_calls, cost, n_operations, worktree,
                   exit_status, messages, sent, has_incoming_op, content, todo,
                   observations>>
    /\ UNCHANGED contextVars

\* The rest of _process_action and of step: the observations go into the temp
\* node and into a user message.
SetObservation ==
    /\ pc = "observe"
    /\ SetAM(set_observation(AM, observations))
    /\ messages' = add_message(messages, "user", <<"formatted_obs">>)
    /\ pc' = "top"
    /\ DropLocals
    /\ lastOp' = [op |-> "set_observation", done |-> observations]
    /\ UNCHANGED <<step_limit, cost_limit, n_calls, cost, n_operations, worktree,
                   exit_status>>
    /\ UNCHANGED contextVars

NextAgent ==
    \/ StepBegin
    \/ ModelQuery
    \/ ProcessReflection
    \/ ProcessAction
    \/ ExecuteCommand
    \/ CaptureDiff
    \/ SetObservation

SpecAgent == InitAgent /\ [][NextAgent]_vars

\* run is sequential code: while it has not returned or raised, its next
\* statement is executed (the model answers or the client gives up after its
\* retries, a sandbox command returns or times out).
FairSpecAgent == SpecAgent /\ WF_vars(NextAgent)

\* ------------------------------- the version-control bridge driven by a caller
\* A command, or an edit from outside, changes the sandbox's working tree.
SandboxEdit ==
    /\ \E tree \in Edits :
          /\ tree # worktree
          /\ worktree' = tree
    /\ lastOp' = [op |-> "edit"]
    /\ UNCHANGED <<treeVars, pc, step_limit, cost_limit, n_calls, cost, n_operations,
                   messages, sent, has_incoming_op, content, todo, observations,
                   exit_status>>
    /\ UNCHANGED contextVars

\* The capture that ends _execute_actions.
Capture ==
    /\ active_node(AM) # None
    /\ nodes' = [nodes EXCEPT ![active_node(AM)].code_change = get_git_diff(worktree)]
    /\ lastOp' = [op |-> "capture"]
    /\ UNCHANGED <<all_nodes, current, temp_node, max_invalid, agentVars>>

\* _sync_version_control().  `after` tells what the call before it was: a
\* commit_admissible of a pending node, a backtrack_to, or something else.
SyncVersionControl ==
    /\ worktree' = sync_version_control(AM, worktree)
    /\ lastOp' = [op |-> "_sync_version_control",
                  before |-> worktree,
                  commands |-> sync_commands(AM, worktree),
                  after |-> IF lastOp.op = "commit_admissible" /\ lastOp.pending # None
                            THEN "commit"
                            ELSE IF lastOp.op = "backtrack_to" THEN "backtrack"
                            ELSE "other"]
    /\ UNCHANGED <<treeVars, pc, step_limit, cost_limit, n_calls, cost, n_operations,
                   messages, sent, has_incoming_op, content, todo, observations,
                   exit_status>>
    /\ UNCHANGED contextVars

\* create_temp_node by a caller that lets no node wait behind another and
\* builds two nodes fewer than create_temp_node may build.
CreateNextNode ==
    /\ temp_node = None
    /\ Len(all_nodes) < MaxNodes - 2
    /\ CreateTempNode

NextBridge ==
    \/ CreateNextNode
    \/ CommitAdmissible
    \/ BacktrackTo
    \/ SandboxEdit
    \/ Capture
    \/ SyncVersionControl

\* The largest max_invalid: no node is rejected here.
InitBridge == Init /\ max_invalid = MaxInvalidArg

SpecBridge == InitBridge /\ [][NextBridge]_vars

\* -------------------------------------------------------- CodeContextManager
\* The files get_file_fn serves, each with the syntax tree tree-sitter gives
\* for it.  A tree is a sequence of nodes, node 1 the root; a node has its
\* type, its first and last line (start_point[0] + 1, end_point[0] + 1), the
\* text of its identifier child and its children in order.  Only the nodes the
\* walks below look at are kept.
\*
\*   a.py  1 class C:                 b.py  1 if c:
\*         2     @staticmethod              2     def g(x):
\*         3     def f(x):                  3         for i in x:
\*         4         match x:               4             y = i
\*         5             case 1:            5         else:
\*         6                 return 1       6             y = 0
\*         7             case _:            7         return y
\*         8                 return 0       8 else:
\*                                          9     z = 1
\*   c.py  seven lines of assignments, no compound statement
\*   e.py  empty
TsNode(t, s, e, n, c) == [type |-> t, start |-> s, end |-> e, name |-> n, children |-> c]

TreeA ==
    << TsNode("module", 1, 8, "", <<2>>),
       TsNode("class_definition", 1, 8, "C", <<3>>),
       TsNode("block", 2, 8, "", <<4>>),
       TsNode("decorated_definition", 2, 8, "", <<5, 6>>),
       TsNode("decorator", 2, 2, "", <<>>),
       TsNode("function_definition", 3, 8, "f", <<7>>),
       TsNode("block", 4, 8, "", <<8>>),
       TsNode("match_statement", 4, 8, "", <<9>>),
       TsNode("block", 5, 8, "", <<10, 12>>),
       TsNode("case_clause", 5, 6, "", <<11>>),
       TsNode("block", 6, 6, "", <<>>),
       TsNode("case_clause", 7, 8, "", <<13>>),
       TsNode("block", 8, 8, "", <<>>) >>

TreeB ==
    << TsNode("module", 1, 9, "", <<2>>),
       TsNode("if_statement", 1, 9, "", <<3, 10>>),
       TsNode("block", 2, 7, "", <<4>>),
       TsNode("function_definition", 2, 7, "g", <<5>>),
       TsNode("block", 3, 7, "", <<6>>),
       TsNode("for_statement", 3, 6, "", <<7, 8>>),
       TsNode("block", 4, 4, "", <<>>),
       TsNode("else_clause", 5, 6, "", <<9>>),
       TsNode("block", 6, 6, "", <<>>),
       TsNode("else_clause", 8, 9, "", <<11>>),
       TsNode("block", 9, 9, "", <<>>) >>

TreeC == << TsNode("module", 1, 7, "", <<>>) >>

TreeE == << TsNode("module", 1, 1, "", <<>>) >>

\* len(content.splitlines()) of the file at `path`
total_lines(path) ==
    CASE path = "a.py" -> 8
      [] path = "b.py" -> 9
      [] path = "c.py" -> 7
      [] OTHER -> 0

\* ts_utils.parse_python of the file at `path`
parse_python(path) ==
    CASE path = "a.py" -> TreeA
      [] path = "b.py" -> TreeB
      [] path = "c.py" -> TreeC
      [] OTHER -> TreeE

\* ts_utils.line_range, as a set
line_range(start, end) == start..end

Min(S) == CHOOSE x \in S : \A y \in S : x <= y
Max(S) == CHOOSE x \in S : \A y \in S : x >= y

\* sorted(S): the elements of a finite set of integers in ascending order
RECURSIVE Sorted(_)
Sorted(S) == IF S = {} THEN <<>> ELSE <<Min(S)>> \o Sorted(S \ {Min(S)})

\* ts_utils.enclosing_node: the walk visits a node's children in order when the
\* node spans the line, and the last node of the target type it meets wins.
RECURSIVE EnclosingWalk(_, _, _, _, _), EnclosingChildren(_, _, _, _, _)
EnclosingWalk(tree, n, line, target_type, result) ==
    IF tree[n].start <= line /\ line <= tree[n].end
    THEN EnclosingChildren(tree, tree[n].children, line, target_type,
                           IF tree[n].type = target_type THEN n ELSE result)
    ELSE result

EnclosingChildren(tree, cs, line, target_type, result) ==
    IF cs = <<>> THEN result
    ELSE EnclosingChildren(tree, Tail(cs), line, target_type,
                           EnclosingWalk(tree, Head(cs), line, target_type, result))

enclosing_node(tree, line_num, target_type) ==
    EnclosingWalk(tree, 1, line_num, target_type, None)

\* ts_utils.find_first_child (None when there is none)
find_first_child(tree, n, child_type) ==
    LET cs == SelectSeq(tree[n].children, LAMBDA c : tree[c].type = child_type)
    IN IF cs = <<>> THEN None ELSE Head(cs)

\* CodeChunk
CodeChunk(file_path, class_name, function, whole_function, lines, eof) ==
    [ file_path |-> file_path, class_name |-> class_name, function |-> function,
      whole_function |-> whole_function, lines |-> lines, eof |-> eof ]

\* CodeContextManager.get_nearby_code_context
get_nearby_code_context(file_path, line_number, window_size) ==
    IF total_lines(file_path) = 0
    THEN CodeChunk(file_path, "", "", FALSE, <<>>, FALSE)
    ELSE
    LET root == parse_python(file_path)
        func_node == enclosing_node(root, line_number, "function_definition")
        class_node == enclosing_node(root, line_number, "class_definition")
        class_name == IF class_node # None THEN root[class_node].name ELSE ""
        func_name == IF func_node # None THEN root[func_node].name ELSE ""
        half == window_size \div 2
    IN IF func_node = None
       THEN CodeChunk(file_path, class_name, func_name, FALSE,
                      Sorted(Max({1, line_number - half})
                             .. Min({total_lines(file_path), line_number + half})),
                      FALSE)
       ELSE LET func_start == root[func_node].start
                func_end == root[func_node].end
                func_len == func_end - func_start + 1
            IN IF func_len <= window_size
               THEN CodeChunk(file_path, class_name, func_name, TRUE,
                              Sorted(func_start .. func_end), FALSE)
               ELSE CodeChunk(file_path, class_name, func_name, FALSE,
                              Sorted(Max({func_start, line_number - half})
                                     .. Min({func_end, line_number + half})),
                              FALSE)

\* get_code_lines with the start of the range not clamped to line 1
get_code_lines_unclamped(file_path, start, end) ==
    IF total_lines(file_path) = 0
    THEN CodeChunk(file_path, "", "", FALSE, <<>>, FALSE)
    ELSE LET clamped_end == Min({end, total_lines(file_path)})
         IN CodeChunk(file_path, "", "", FALSE,
                      [i \in 1..(clamped_end - start + 1) |-> start + i - 1],
                      end > total_lines(file_path))

\* CodeContextManager.get_code_lines
get_code_lines(file_path, start, end) ==
    IF total_lines(file_path) = 0
    THEN CodeChunk(file_path, "", "", FALSE, <<>>, FALSE)
    ELSE LET total == total_lines(file_path)
             clamped_end == Min({end, total})
             first == Max({1, start})
         IN CodeChunk(file_path, "", "", FALSE,
                      [i \in 1..(clamped_end - first + 1) |-> first + i - 1],
                      end > total)

\* CodeContextManager._merge_chunks: one chunk per (file, class, function), in
\* the order the keys first appear (a dict keeps insertion order).
ChunkKey(c) == <<c.file_path, c.class_name, c.function>>

MergeInto(merged, chunk) ==
    IF \E i \in 1..Len(merged) : ChunkKey(merged[i]) = ChunkKey(chunk)
    THEN [ i \in 1..Len(merged) |->
             IF ChunkKey(merged[i]) = ChunkKey(chunk)
             THEN [ merged[i] EXCEPT
                      !.whole_function = merged[i].whole_function \/ chunk.whole_function,
                      !.eof = merged[i].eof \/ chunk.eof,
                      !.lines = Sorted(Range(merged[i].lines) \cup Range(chunk.lines)) ]
             ELSE merged[i] ]
    ELSE Append(merged, [chunk EXCEPT !.lines = Sorted(Range(chunk.lines))])

RECURSIVE MergeFrom(_, _)
MergeFrom(merged, chunks) ==
    IF chunks = <<>> THEN merged
    ELSE MergeFrom(MergeInto(merged, Head(chunks)), Tail(chunks))

merge_chunks(chunks) == MergeFrom(<<>>, chunks)

\* CodeContextManager._build_signature_map: the entries the walk writes, in the
\* order it writes them; a later entry of the same key replaces an earlier one.
\* An entry of a function has its signature lines and its line range, an entry
\* of a class its signature lines only.
SigEntry(class_name, function, sig, has_range, rng) ==
    [ key |-> <<class_name, function>>, sig |-> sig, has_range |-> has_range, range |-> rng ]

\* first and last signature line of a definition: from its first line, or the
\* first decorator's, to the line before its body
SigLines(tree, n, decorator_start) ==
    LET body == find_first_child(tree, n, "block")
        start == IF decorator_start # None
                 THEN Min({tree[n].start, decorator_start}) ELSE tree[n].start
        end == IF body # None THEN tree[body].start - 1 ELSE tree[n].end
    IN line_range(start, Max({start, end}))

RECURSIVE SigWalk(_, _, _, _), SigWalkAll(_, _, _, _)
SigWalk(tree, n, class_name, decorator_start) ==
    CASE tree[n].type = "decorated_definition" ->
           LET decorators == SelectSeq(tree[n].children, LAMBDA c : tree[c].type = "decorator")
               inherited_start ==
                   IF decorators # <<>>
                   THEN Min({ tree[d].start : d \in Range(decorators) })
                   ELSE decorator_start
           IN SigWalkAll(tree, SelectSeq(tree[n].children, LAMBDA c : tree[c].type # "decorator"),
                         class_name, inherited_start)
      [] tree[n].type = "class_definition" ->
           LET body == find_first_child(tree, n, "block")
               sig == SigLines(tree, n, decorator_start)
           IN << SigEntry("", tree[n].name, sig, FALSE, {}),
                 SigEntry(tree[n].name, "", sig, FALSE, {}) >>
              \o (IF body # None
                  THEN SigWalkAll(tree, tree[body].children, tree[n].name, None)
                  ELSE <<>>)
      [] tree[n].type = "function_definition" ->
           << SigEntry(class_name, tree[n].name, SigLines(tree, n, decorator_start),
                       TRUE, line_range(tree[n].start, tree[n].end)) >>
      [] OTHER -> SigWalkAll(tree, tree[n].children, class_name, None)

SigWalkAll(tree, cs, class_name, decorator_start) ==
    IF cs = <<>> THEN <<>>
    ELSE SigWalk(tree, Head(cs), class_name, decorator_start)
         \o SigWalkAll(tree, Tail(cs), class_name, decorator_start)

build_signature_map(tree) == SigWalk(tree, 1, "", None)

\* sig_map.get(key, []): the last entry written for the key
sig_get(sig_map, key) ==
    LET hits == SelectSeq(sig_map, LAMBDA e : e.key = key)
    IN IF hits = <<>> THEN {} ELSE hits[Len(hits)].sig

\* range_map.get(key, set()), CodeContextManager._get_function_range
get_function_range(sig_map, class_name, function) ==
    LET hits == SelectSeq(sig_map, LAMBDA e : e.key = <<class_name, function>> /\ e.has_range)
    IN IF hits = <<>> THEN {} ELSE hits[Len(hits)].range

\* CodeContextManager._get_signature_lines
get_signature_lines(sig_map, class_name, function) ==
    (IF class_name # "" THEN sig_get(sig_map, <<class_name, "">>) ELSE {})
    \cup (IF function # "" THEN sig_get(sig_map, <<class_name, function>>)
          ELSE IF class_name # "" THEN sig_get(sig_map, <<"", class_name>>)
          ELSE {})

\* CodeContextManager._build_block_parents
statement_blocks ==
    { "if_statement", "for_statement", "while_statement", "with_statement",
      "try_statement", "match_statement" }
clause_blocks ==
    { "elif_clause", "else_clause", "except_clause", "finally_clause", "case_clause" }

\* collect_declarations: the first line of the node and of the clauses below
\* it, a clause being a child or a child of a child block
RECURSIVE collect_declarations(_, _)
collect_declarations(tree, n) ==
    (IF tree[n].type \in statement_blocks \cup clause_blocks THEN {tree[n].start} ELSE {})
    \cup UNION { IF tree[c].type \in clause_blocks
                 THEN collect_declarations(tree, c)
                 ELSE IF tree[c].type = "block"
                 THEN UNION { collect_declarations(tree, g) :
                                g \in { x \in Range(tree[c].children) :
                                          tree[x].type \in clause_blocks } }
                 ELSE {}
               : c \in Range(tree[n].children) }

\* walk: the pairs <<line, declaration line>> the walk adds to `parents`
RECURSIVE BlockWalk(_, _, _)
BlockWalk(tree, n, enclosing) ==
    LET local == IF tree[n].type \in statement_blocks
                 THEN enclosing \cup collect_declarations(tree, n)
                 ELSE enclosing
    IN (IF tree[n].type \in statement_blocks
        THEN line_range(tree[n].start, tree[n].end) \X local
        ELSE {})
       \cup UNION { BlockWalk(tree, c, local) : c \in Range(tree[n].children) }

\* _build_block_parents with the clauses left out of the declarations
build_block_parents_statements_only(tree) ==
    { p \in BlockWalk(tree, 1, {}) :
        \E n \in DOMAIN tree : tree[n].type \in statement_blocks /\ tree[n].start = p[2] }

build_block_parents(tree) == BlockWalk(tree, 1, {})

\* CodeContextManager._get_block_declaration_lines
get_block_declaration_lines(block_map, line) ==
    { p[2] : p \in { q \in block_map : q[1] = line } }

\* CodeContextManager._collect_needed_lines, for the chunks of one file
collect_needed_lines(chunks, tree) ==
    LET sig_map == build_signature_map(tree)
        block_map == build_block_parents(tree)
    IN UNION { get_signature_lines(sig_map, c.class_name, c.function)
               \cup (IF c.whole_function
                     THEN get_function_range(sig_map, c.class_name, c.function)
                     ELSE Range(c.lines)
                          \cup UNION { get_block_declaration_lines(block_map, l) :
                                         l \in Range(c.lines) })
               : c \in Range(chunks) }

\* len(str(n)) of a line number
Digits(n) == IF n < 10 THEN 1 ELSE IF n < 100 THEN 2 ELSE 3

\* The parts _render_lines joins with newlines: a numbered line of the file
\* (its text is the file's line n), the "..." marker, the "  [EOF]" marker.
LinePart(n, width) == [part |-> "line", n |-> n, width |-> width]
GapPart == [part |-> "...", n |-> 0, width |-> 0]
EofPart == [part |-> "  [EOF]", n |-> 0, width |-> 0]

RECURSIVE RenderFrom(_, _, _, _)
RenderFrom(total, line_numbers, width, prev_line) ==
    IF line_numbers = <<>> THEN <<>>
    ELSE LET line_number == Head(line_numbers)
         IN IF line_number < 1 \/ line_number > total
            THEN RenderFrom(total, Tail(line_numbers), width, prev_line)
            ELSE (IF prev_line # None /\ line_number > prev_line + 1
                  THEN <<GapPart>> ELSE <<>>)
                 \o <<LinePart(line_number, width)>>
                 \o RenderFrom(total, Tail(line_numbers), width, line_number)

\* CodeContextManager._render_lines
render_lines(total, line_numbers, eof) ==
    IF line_numbers = <<>> THEN <<>>
    ELSE RenderFrom(total, line_numbers, Digits(Max(Range(line_numbers))) + 1, None)
         \o (IF eof THEN <<EofPart>> ELSE <<>>)

\* The files of the merged chunks in the order they first appear (the keys of
\* the dict `files`).
RECURSIVE FilesOf(_, _)
FilesOf(merged, seen) ==
    IF merged = <<>> THEN <<>>
    ELSE IF Head(merged).file_path \in seen THEN FilesOf(Tail(merged), seen)
    ELSE <<Head(merged).file_path>>
         \o FilesOf(Tail(merged), seen \cup {Head(merged).file_path})

\* One section "## File: `path`\n<rendered>", none for a file without lines or
\* without needed lines.
Section(file_path, file_chunks) ==
    LET needed_lines == collect_needed_lines(file_chunks, parse_python(file_path))
    IN IF total_lines(file_path) = 0 \/ needed_lines = {} THEN <<>>
       ELSE << [ file_path |-> file_path,
                 rendered |-> render_lines(total_lines(file_path), Sorted(needed_lines),
                                           \E c \in Range(file_chunks) : c.eof) ] >>

RECURSIVE Sections(_, _)
Sections(paths, merged) ==
    IF paths = <<>> THEN <<>>
    ELSE Section(Head(paths), SelectSeq(merged, LAMBDA c : c.file_path = Head(paths)))
         \o Sections(Tail(paths), merged)

\* CodeContextManager.render: the sections "\n\n".join puts together (none: "")
render(chunks) ==
    LET merged == merge_chunks(chunks)
    IN Sections(FilesOf(merged, {}), merged)

\* ------------------------------- the CodeContextManager driven by a caller
\* The calls a caller makes.  A state of this specification is one call: its
\* arguments first, then its arguments and what it returned.
NearbyCalls ==
    { [ op |-> "call", method |-> "get_nearby_code_context",
        file_path |-> p, line_number |-> l, window_size |-> w ] :
        p \in Paths, l \in 0..MaxLine, w \in 1..MaxWindow }

LinesCalls ==
    { [ op |-> "call", method |-> "get_code_lines",
        file_path |-> p, start |-> s, end |-> e ] :
        p \in Paths, s \in 0..MaxLine, e \in 0..MaxLine }

\* The chunks a node's code_chunks may hold: results of the two tools.
ChunkPool ==
    { get_nearby_code_context(p, l, w) :
        p \in Paths, l \in AnchorLines, w \in {1, MaxWindow} }
    \cup { get_code_lines(p, r[1], r[2]) : p \in Paths, r \in {<<1, 2>>, <<6, MaxLine>>} }

ChunkLists == UNION { [1..n -> ChunkPool] : n \in 0..MaxChunks }

RenderCalls == { [ op |-> "call", method |-> "render", chunks |-> cs ] : cs \in ChunkLists }

InitContext ==
    /\ nodes = (Sentinel :> OperationNode("none"))
    /\ all_nodes = <<>>
    /\ current = Sentinel
    /\ temp_node = None
    /\ max_invalid = MaxInvalidArg
    /\ InitRun
    /\ step_limit = 0
    /\ cost_limit = 0
    /\ \/ lastOp \in NearbyCalls
       \/ lastOp \in LinesCalls
       \/ lastOp \in RenderCalls

Calling(method) == lastOp.op = "call" /\ lastOp.method = method

GetNearbyCodeContext ==
    /\ Calling("get_nearby_code_context")
    /\ lastOp' = [ op |-> "get_nearby_code_context",
                   file_path |-> lastOp.file_path,
                   line_number |-> lastOp.line_number,
                   window_size |-> lastOp.window_size,
                   ret |-> get_nearby_code_context(lastOp.file_path, lastOp.line_number,
                                                   lastOp.window_size) ]
    /\ UNCHANGED <<treeVars, agentVars>>

GetCodeLines ==
    /\ Calling("get_code_lines")
    /\ lastOp' = [ op |-> "get_code_lines",
                   file_path |-> lastOp.file_path,
                   start |-> lastOp.start,
                   end |-> lastOp.end,
                   ret |-> get_code_lines(lastOp.file_path, lastOp.start, lastOp.end) ]
    /\ UNCHANGED <<treeVars, agentVars>>

Render ==
    /\ Calling("render")
    /\ lastOp' = [ op |-> "render", chunks |-> lastOp.chunks, ret |-> render(lastOp.chunks) ]
    /\ UNCHANGED <<treeVars, agentVars>>

NextContext ==
    \/ GetNearbyCodeContext
    \/ GetCodeLines
    \/ Render

SpecContext == InitContext /\ [][NextContext]_vars

\* ------------------------------------ the code chunks of the tool dispatcher
\* window_size of get_nearby_code_context when the caller gives none.
DefaultWindow == 100

\* The built-in tool commands followed, by tool and coerced arguments.
BuiltinCommands ==
    { [tool |-> "get-nearby-code-context", args |-> <<"a.py", 4>>],
      [tool |-> "get-code-lines", args |-> <<"c.py", 1, 2>>] }

\* The code_context entries of tool-responses followed: file_path, line_number
\* (None: the entry has none).
CodeContexts ==
    { [file_path |-> "a.py", line_number |-> 4],
      [file_path |-> "c.py", line_number |-> 0],
      [file_path |-> "", line_number |-> None] }

\* The code_context lists of tool-responses followed: one entry, or two with
\* the first one usable.
CodeContextLists ==
    { <<c>> : c \in CodeContexts }
    \cup { <<c, d>> : c \in { x \in CodeContexts : x.line_number = 4 }, d \in CodeContexts }

\* tool.callable(*args) of _run_builtin_tool
builtin_chunk(command) ==
    IF command.tool = "get-nearby-code-context"
    THEN get_nearby_code_context(command.args[1], command.args[2],
                                 IF Len(command.args) > 2 THEN command.args[3]
                                 ELSE DefaultWindow)
    ELSE get_code_lines(command.args[1], command.args[2], command.args[3])

\* _handle_code_chunk attaching to current, whatever is pending.
handle_code_chunk_to_current(am, chunk) ==
    [am EXCEPT !.nodes = [@ EXCEPT ![am.current].code_chunks = Append(@, chunk)]]

\* _handle_code_chunk: the tree after it.
handle_code_chunk(am, chunk) ==
    IF active_node(am) # None
    THEN [am EXCEPT !.nodes = [@ EXCEPT ![active_node(am)].code_chunks = Append(@, chunk)]]
    ELSE am

\* _chunk_key
chunk_key(chunk) ==
    <<chunk.file_path, chunk.class_name, chunk.function, chunk.whole_function, chunk.lines>>

\* _append_unique_code_chunk that appends whatever the list holds.
append_unique_code_chunk_always(chunks, chunk) == Append(chunks, chunk)

\* _append_unique_code_chunk
append_unique_code_chunk(chunks, chunk) ==
    IF chunk_key(chunk) \notin { chunk_key(c) : c \in Range(chunks) }
    THEN Append(chunks, chunk)
    ELSE chunks

\* The loop of _attach_code_context_chunks over the entries, on the list of the
\* active node.
RECURSIVE AttachEach(_, _)
AttachEach(chunks, code_contexts) ==
    IF code_contexts = <<>> THEN chunks
    ELSE LET code_context == Head(code_contexts)
         IN  IF \/ code_context.file_path = ""
                \/ code_context.line_number = None
                \/ code_context.line_number < 1
             THEN AttachEach(chunks, Tail(code_contexts))
             ELSE AttachEach(
                    append_unique_code_chunk(
                        chunks,
                        get_nearby_code_context(code_context.file_path,
                                                code_context.line_number, DefaultWindow)),
                    Tail(code_contexts))

\* _attach_code_context_chunks: the tree after it.
attach_code_context_chunks(am, code_contexts) ==
    LET active == active_node(am)
    IN  IF code_contexts = <<>> \/ active = None THEN am
        ELSE [am EXCEPT !.nodes = [@ EXCEPT ![active].code_chunks =
                                                AttachEach(@, code_contexts)]]

\* The loop of _collect_code_context_chunks over the nodes of `path`.
RECURSIVE ExtendChunks(_, _)
ExtendChunks(am, path) ==
    IF path = <<>> THEN <<>>
    ELSE am.nodes[Head(path)].code_chunks \o ExtendChunks(am, Tail(path))

\* _collect_code_context_chunks taking the pending node's chunks as well.
collect_code_context_chunks_with_active(am, default) ==
    default \o ExtendChunks(am, get_path_from_root_to_current(am))
            \o (IF am.temp_node # None THEN am.nodes[am.temp_node].code_chunks ELSE <<>>)

\* _collect_code_context_chunks
collect_code_context_chunks(am, default) ==
    default \o ExtendChunks(am, get_path_from_root_to_current(am))

\* The chunks the nodes hold, all together.
AttachedChunks ==
    LET RECURSIVE Sum(_)
        Sum(S) == IF S = {} THEN 0
                  ELSE LET n == CHOOSE x \in S : TRUE
                       IN  Len(nodes[n].code_chunks) + Sum(S \ {n})
    IN  Sum(DOMAIN nodes)

\* _run_builtin_tool(command) on a built-in tool's command.
RunBuiltinTool ==
    /\ AttachedChunks < MaxChunks
    /\ \E command \in BuiltinCommands :
          /\ SetAM(handle_code_chunk(AM, builtin_chunk(command)))
          /\ lastOp' = [op |-> "_handle_code_chunk", chunk |-> builtin_chunk(command),
                        active |-> active_node(AM)]
    /\ UNCHANGED agentVars

\* _attach_code_context_chunks(tr.code_context) on the code_context list of a
\* tool-response.
AttachCodeContextChunks ==
    /\ AttachedChunks < MaxChunks
    /\ \E code_contexts \in CodeContextLists :
          /\ SetAM(attach_code_context_chunks(AM, code_contexts))
          /\ lastOp' = [op |-> "_attach_code_context_chunks", active |-> active_node(AM),
                        usable |-> SelectSeq(code_contexts,
                                             LAMBDA c : c.file_path # "" /\ c.line_number >= 1)]
    /\ UNCHANGED agentVars

\* _collect_code_context_chunks(), as _build_user_message calls it.
CollectCodeContextChunks ==
    /\ lastOp' = [op |-> "_collect_code_context_chunks",
                  ret |-> collect_code_context_chunks(AM, default_code_chunks)]
    /\ UNCHANGED <<treeVars, agentVars>>

NextTools ==
    \/ CreateNextNode
    \/ CommitAdmissible
    \/ CommitInvalid
    \/ BacktrackTo
    \/ RunBuiltinTool
    \/ AttachCodeContextChunks
    \/ CollectCodeContextChunks

\* _init_code_context: the reproduction script loaded whole as the default
\* chunk, or no default chunk.
InitTools ==
    /\ InitTree
    /\ max_invalid = MaxInvalidArg
    /\ InitStep
    /\ step_limit = 0
    /\ cost_limit = 0
    /\ code_context_manager = NewCodeContextManager("")
    /\ default_code_chunks \in { <<>>, <<CodeChunk("c.py", "", "", FALSE,
                                                  [i \in 1..total_lines("c.py") |-> i],
                                                  FALSE)>> }
    /\ files = [p \in Paths |-> p]
    /\ reads = <<>>

SpecTools == InitTools /\ [][NextTools]_vars

\* --------------------------------- the caches of the CodeContextManager
\* The file paths callers ask for: a relative one, and the absolute one it
\* stands for under the working directory "/w".
RequestPaths == {"a.py", "/w/a.py"}

\* file_path.startswith("/")
StartsWithSlash(file_path) == file_path \in {"/w/a.py"}

\* What a sandbox file can hold: the text of a sample file, named by the
\* sample's path ("e.py": nothing).
Texts == {"a.py", "c.py", "e.py"}

\* CodeContextManager._resolve_path
resolve_path(ccm, file_path) ==
    IF ccm.cwd # "" /\ ~StartsWithSlash(file_path)
    THEN ccm.cwd \o "/" \o file_path
    ELSE file_path

\* env.get_file: the text at `path` ("" when the copy out of the sandbox fails).
get_file(fs, path) == IF path \in DOMAIN fs THEN fs[path] ELSE "e.py"

\* _read_file that keeps no empty content in the cache.
read_file_skip_empty(ccm, fs, path) ==
    IF path \in DOMAIN ccm.file_cache
    THEN [ccm |-> ccm, content |-> ccm.file_cache[path], read |-> <<>>]
    ELSE [ccm |-> IF total_lines(get_file(fs, path)) = 0 THEN ccm
                  ELSE [ccm EXCEPT !.file_cache = @ @@ (path :> get_file(fs, path))],
          content |-> get_file(fs, path),
          read |-> <<path>>]

\* CodeContextManager._read_file: the manager after the call, the content it
\* returns, the paths it called get_file_fn with.
read_file(ccm, fs, path) ==
    IF path \in DOMAIN ccm.file_cache
    THEN [ccm |-> ccm, content |-> ccm.file_cache[path], read |-> <<>>]
    ELSE [ccm |-> [ccm EXCEPT !.file_cache = @ @@ (path :> get_file(fs, path))],
          content |-> get_file(fs, path),
          read |-> <<path>>]

\* get_nearby_code_context on a manager with its caches: the chunk is that of
\* the text the cache holds for the resolved path, under the path asked for.
cached_get_nearby_code_context(ccm, fs, file_path, line_number, window_size) ==
    LET read_path == resolve_path(ccm, file_path)
        got == read_file(ccm, fs, read_path)
        parsed == IF total_lines(got.content) = 0 \/ read_path \in DOMAIN got.ccm.parse_cache
                  THEN got.ccm
                  ELSE [got.ccm EXCEPT !.parse_cache = @ @@ (read_path :> got.content)]
    IN  [ccm |-> parsed, read |-> got.read,
         ret |-> IF total_lines(got.content) = 0
                 THEN CodeChunk(file_path, "", "", FALSE, <<>>, FALSE)
                 ELSE [get_nearby_code_context(parsed.parse_cache[read_path], line_number,
                                               window_size)
                         EXCEPT !.file_path = file_path]]

\* get_code_lines on a manager with its caches
cached_get_code_lines(ccm, fs, file_path, start, end) ==
    LET got == read_file(ccm, fs, resolve_path(ccm, file_path))
    IN  [ccm |-> got.ccm, read |-> got.read,
         ret |-> [get_code_lines(got.content, start, end) EXCEPT !.file_path = file_path]]

\* The loop of render over the files of the merged chunks: each section tells
\* the file, the text its lines are taken from, the rendered lines.
RECURSIVE CachedSections(_, _, _, _)
CachedSections(ccm, fs, paths, merged) ==
    IF paths = <<>> THEN [ccm |-> ccm, read |-> <<>>, ret |-> <<>>]
    ELSE LET file_path == Head(paths)
             got == read_file(ccm, fs, resolve_path(ccm, file_path))
             section == Section(got.content,
                                SelectSeq(merged, LAMBDA c : c.file_path = file_path))
             rest == CachedSections(got.ccm, fs, Tail(paths), merged)
         IN  [ccm |-> rest.ccm,
              read |-> got.read \o rest.read,
              ret |-> [i \in 1..Len(section) |->
                         [file_path |-> file_path, content |-> got.content,
                          rendered |-> section[i].rendered]] \o rest.ret]

\* render on a manager with its caches
cached_render(ccm, fs, chunks) ==
    LET merged == merge_chunks(chunks)
    IN  CachedSections(ccm, fs, FilesOf(merged, {}), merged)

\* The manager and the read log after a call that gave `result`.
Returned(result) ==
    /\ code_context_manager' = result.ccm
    /\ reads' = reads \o result.read
    /\ UNCHANGED <<treeVars, pc, step_limit, cost_limit, n_calls, cost, n_operations,
                   messages, sent, has_incoming_op, content, todo, observations,
                   worktree, exit_status, default_code_chunks, files>>

CallGetNearbyCodeContext ==
    \E file_path \in RequestPaths :
       LET result == cached_get_nearby_code_context(code_context_manager, files,
                                                    file_path, 4, DefaultWindow)
       IN  /\ Returned(result)
           /\ lastOp' = [op |-> "get_nearby_code_context", asked |-> {file_path},
                         read |-> result.read, ret |-> result.ret]

CallGetCodeLines ==
    \E file_path \in RequestPaths :
       LET result == cached_get_code_lines(code_context_manager, files, file_path, 1, 2)
       IN  /\ Returned(result)
           /\ lastOp' = [op |-> "get_code_lines", asked |-> {file_path},
                         read |-> result.read, ret |-> result.ret]

\* render, as _build_user_message calls it, on chunks of lines 1 to 2.
CallRender ==
    \E n \in 1..2 : \E asked \in [1..n -> RequestPaths] :
       LET chunks == [i \in 1..n |-> CodeChunk(asked[i], "", "", FALSE, <<1, 2>>, FALSE)]
           result == cached_render(code_context_manager, files, chunks)
       IN  /\ Returned(result)
           /\ lastOp' = [op |-> "render", asked |-> Range(asked),
                         read |-> result.read, ret |-> result.ret]

\* A command of an action writes a file of the sandbox.
WriteFile ==
    /\ \E path \in DOMAIN files : \E text \in Texts \ {files[path]} :
          files' = [files EXCEPT ![path] = text]
    /\ lastOp' = [op |-> "write"]
    /\ UNCHANGED <<treeVars, pc, step_limit, cost_limit, n_calls, cost, n_operations,
                   messages, sent, has_incoming_op, content, todo, observations,
                   worktree, exit_status, code_context_manager, default_code_chunks,
                   reads>>

NextCache ==
    \/ CallGetNearbyCodeContext
    \/ CallGetCodeLines
    \/ CallRender
    \/ WriteFile

\* A manager with or without working directory, on a sandbox with some text
\* in each of the files.
InitCache ==
    /\ InitTree
    /\ max_invalid = MaxInvalidArg
    /\ InitStep
    /\ step_limit = 0
    /\ cost_limit = 0
    /\ \E cwd \in {"", "/w"} : code_context_manager = NewCodeContextManager(cwd)
    /\ default_code_chunks = <<>>
    /\ files \in [RequestPaths -> Texts]
    /\ reads = <<>>

SpecCache == InitCache /\ [][NextCache]_vars

\* ====================================================================== claims
\* Some node id of the nodes built so far (the sentinel included).
Ids == DOMAIN nodes

\* The last call was `op`.
Called(op) == lastOp.op = op

\* ---------------------------------------------------------------------- C1
\* C1: commit_admissible with a temp node pending sets the temp node's parent to
\* the node that was current, appends it as the last element of that node's
\* children, makes it current and clears the temp node; with no temp node
\* pending it changes nothing (current, every children and invalid_ops list).
C1_CommitAdmissible ==
    [][ Called("commit_admissible")' =>
          IF temp_node # None
          THEN /\ nodes'[temp_node].parent = current
               /\ nodes'[current].children = Append(nodes[current].children, temp_node)
               /\ current' = temp_node
               /\ temp_node' = None
          ELSE /\ current' = current
               /\ temp_node' = None
               /\ DOMAIN nodes' = DOMAIN nodes
               /\ \A n \in Ids : /\ nodes'[n].children = nodes[n].children
                                  /\ nodes'[n].invalid_ops = nodes[n].invalid_ops
                                  /\ nodes'[n].parent = nodes[n].parent ]_vars

\* commit_admissible has linked a node below a node that already had a child.
C1_Witness ==
    /\ Called("commit_admissible")
    /\ lastOp.pending # None
    /\ current = lastOp.pending
    /\ Len(nodes[nodes[current].parent].children) >= 2

\* ---------------------------------------------------------------------- C2
\* C2: create_temp_node called while a temp node is pending fails with
\* PendingExists and leaves the pending temp node and the tree unchanged.
C2_PendingExists ==
    [][ (Called("create_temp_node")' /\ temp_node # None) =>
          /\ lastOp'.error = "PendingExists"
          /\ UNCHANGED treeVars ]_vars

\* ---------------------------------------------------------------------- C3
\* What commit_invalid does to the tree when a temp node is pending: it appends
\* the node to current.invalid_ops, clears the temp node, leaves current alone.
C3_Effect ==
    temp_node # None =>
        /\ nodes'[current].invalid_ops = Append(nodes[current].invalid_ops, temp_node)
        /\ temp_node' = None
        /\ current' = current

\* C3 as claimed: for every call, in every reachable state, commit_invalid
\* returns true iff current.invalid_ops then holds at least max_invalid nodes.
C3_ReturnIffOverflow ==
    [][ Called("commit_invalid")' =>
          /\ C3_Effect
          /\ lastOp'.ret = (Len(nodes'[current'].invalid_ops) >= max_invalid) ]_vars

\* C3 amended: the return value is true iff current.invalid_ops then holds at
\* least max_invalid nodes when a temp node was pending; with none pending the
\* call returns false and changes nothing.
C3_ReturnIffOverflowWhenPending ==
    [][ Called("commit_invalid")' =>
          /\ C3_Effect
          /\ IF temp_node # None
             THEN lastOp'.ret = (Len(nodes'[current'].invalid_ops) >= max_invalid)
             ELSE lastOp'.ret = FALSE /\ UNCHANGED treeVars ]_vars

\* commit_invalid has returned true for a pending node.
C3_Witness ==
    /\ Called("commit_invalid")
    /\ lastOp.pending # None
    /\ lastOp.ret = TRUE
    /\ Len(nodes[current].invalid_ops) >= max_invalid

\* ---------------------------------------------------------------------- C4
\* The nodes built so far that are in no children list and no invalid_ops list.
Uncommitted ==
    { n \in Range(all_nodes) :
        \A m \in Ids : /\ n \notin Range(nodes[m].children)
                       /\ n \notin Range(nodes[m].invalid_ops) }

\* C4: in every state the agent loop reaches at most one node that was built is
\* uncommitted (in no children list and no invalid_ops list), and it is the
\* tree's temp node.
C4_OneUncommitted ==
    /\ Cardinality(Uncommitted) <= 1
    /\ \A n \in Uncommitted : n = temp_node
    /\ temp_node # None => temp_node \in Uncommitted

\* A second temp node is pending: the reflection of its step has consumed the
\* first, which an action timeout had left without observations.
C4_Witness ==
    /\ temp_node # None
    /\ Len(all_nodes) >= 2
    /\ \E n \in Ids : nodes[n].invalid_ops # <<>>
    /\ nodes[1].observations = <<>>
    /\ nodes[temp_node].observations # <<>>

\* ---------------------------------------------------------------------- C5
\* The nodes of a path that are children of `target`.
ChildrenOnPath(path, target) == { n \in Range(path) : nodes[n].parent = target }

\* C5: after backtrack_to(target, s), target a strict ancestor of current as
\* find_backtrack_target returns it: current = target, exactly one child of
\* target on the former root-to-current path has dead_path = true and it has it
\* as a result of this call, and s is the last of target.dead_path_summaries.
C5_BacktrackTo ==
    [][ Called("backtrack_to")' =>
          LET target == lastOp'.target
              former == get_path_from_root_to_current(AM)
              kids   == ChildrenOnPath(former, target)
          IN  /\ current' = target
              /\ Cardinality({ n \in kids : nodes'[n].dead_path }) = 1
              /\ \A n \in kids : nodes'[n].dead_path /\ ~nodes[n].dead_path
              /\ nodes'[target].dead_path_summaries # <<>>
              /\ nodes'[target].dead_path_summaries
                    = Append(nodes[target].dead_path_summaries, lastOp'.summary) ]_vars

\* backtrack_to has gone up more than one level, to a node that already held a
\* dead-path summary.
C5_Witness ==
    /\ Called("backtrack_to")
    /\ current = lastOp.target
    /\ Len(nodes[current].dead_path_summaries) >= 2
    /\ \E n \in Ids : /\ nodes[n].dead_path
                       /\ nodes[n].parent = current
                       /\ nodes[n].children # <<>>

\* ---------------------------------------------------------------------- C6
\* The k-th node above `n` (None above the sentinel).
RECURSIVE Up(_, _)
Up(n, k) ==
    IF k = 0 \/ n = None THEN n ELSE Up(nodes[n].parent, k - 1)

\* The heights above current at which a non-sentinel EXPLORATORY node stands.
ExploratoryAbove ==
    { k \in 1..MaxNodes + 1 :
        /\ Up(current, k) \notin {None, Sentinel}
        /\ nodes[Up(current, k)].action_property = EXPLORATORY }

\* C6: find_backtrack_target returns the nearest strict ancestor of current whose
\* property is EXPLORATORY, none when there is no such ancestor, never current
\* itself or the root sentinel, and it does not change the tree.
C6_FindBacktrackTarget ==
    [][ Called("find_backtrack_target")' =>
          /\ IF ExploratoryAbove = {}
             THEN lastOp'.ret = None
             ELSE \E k \in ExploratoryAbove :
                     /\ \A j \in ExploratoryAbove : k <= j
                     /\ lastOp'.ret = Up(current, k)
          /\ lastOp'.ret \notin {current, Sentinel}
          /\ UNCHANGED treeVars ]_vars

\* find_backtrack_target has skipped a non-exploratory parent and returned an
\* exploratory ancestor while current itself is exploratory.
C6_Witness ==
    /\ Called("find_backtrack_target")
    /\ lastOp.ret # None
    /\ lastOp.ret # nodes[current].parent
    /\ nodes[current].action_property = EXPLORATORY

\* The call found no target although current is a real node.
C6_WitnessNone ==
    /\ Called("find_backtrack_target")
    /\ lastOp.ret = None
    /\ current # Sentinel

\* ---------------------------------------------------------------------- C7
\* C7: get_reasoning_chain() contains no node with dead_path = true, is empty or
\* starts at a child of the root sentinel, and ends at current whenever current
\* is not the sentinel.
C7_ReasoningChain ==
    LET chain == get_reasoning_chain(AM)
    IN  /\ \A i \in 1..Len(chain) : ~nodes[chain[i]].dead_path
        /\ chain = <<>> \/ chain[1] \in Range(nodes[Sentinel].children)
        /\ current # Sentinel => chain # <<>> /\ chain[Len(chain)] = current

\* The chain passes a node that has a dead child and a live one.
C7_Witness ==
    LET chain == get_reasoning_chain(AM)
    IN  /\ Len(chain) >= 2
        /\ \E i \in 1..Len(chain) - 1 :
              \E d \in Range(nodes[chain[i]].children) :
                  nodes[d].dead_path /\ nodes[d].children # <<>>

\* ---------------------------------------------------------------------- C8
\* C8: get_rejected_actions() is, in root-to-current order, the concatenation of
\* the invalid_ops of all nodes from the root to current, the nodes rejected
\* while current was the root included.
C8_RejectedFromRoot ==
    get_rejected_actions(AM)
        = ExtendInvalid(AM, <<Sentinel>> \o get_path_from_root_to_current(AM))

\* ---------------------------------------------------------------------- C9
\* The path is empty iff current is the sentinel; otherwise it excludes the
\* sentinel, ends at current, and each element is in the children of its
\* predecessor (the first in the sentinel's).
C9_PathShape ==
    LET path == get_path_from_root_to_current(AM)
    IN  /\ (path = <<>>) <=> (current = Sentinel)
        /\ Sentinel \notin Range(path)
        /\ path # <<>> =>
              /\ path[Len(path)] = current
              /\ path[1] \in Range(nodes[Sentinel].children)
        /\ \A i \in 2..Len(path) : path[i] \in Range(nodes[path[i - 1]].children)

\* C9: after any sequence of commits and backtracks the path from root to
\* current has the shape above, and the parent of every accepted node is the
\* node that was last in this path just before it was committed (the root
\* sentinel when the path was empty).
C9_PathFromRoot ==
    /\ C9_PathShape
    /\ (Called("commit_admissible") /\ lastOp.pending # None) =>
          LET before == lastOp.path_before
          IN  nodes[lastOp.pending].parent
                = IF before = <<>> THEN Sentinel ELSE before[Len(before)]

\* A node has been committed below a backtrack target: the path is shorter than
\* the tree is deep.
C9_Witness ==
    /\ Called("commit_admissible")
    /\ lastOp.pending = current
    /\ Len(get_path_from_root_to_current(AM)) >= 2
    /\ \E n \in Ids : nodes[n].dead_path /\ nodes[n].parent = nodes[current].parent

EndsWithLimitsExceeded ==
    /\ pc' = "exited"
    /\ exit_status' = "LimitsExceeded"
    /\ n_calls' = n_calls
    /\ sent' = <<>>
    /\ messages' = Append(messages, [role |-> "user", content |-> <<>>])
    /\ UNCHANGED <<treeVars, worktree>>

\* C13 as claimed: at the top of every iteration, if the model call count is
\* at least step_limit or the accumulated cost at least cost_limit, the step
\* fails with LimitsExceeded before a prompt is built or a query made and the
\* run ends; a run never makes more than step_limit model queries.
C13_LimitsExceeded ==
    [][ /\ (pc = "top" /\ (n_calls >= step_limit \/ cost >= cost_limit))
            => EndsWithLimitsExceeded
        /\ n_calls' <= step_limit' ]_vars

\* C13 amended: a limit of 0 is no limit.  At the top of every iteration, if
\* step_limit is positive and the call count at least step_limit, or cost_limit
\* is positive and the cost at least cost_limit, the step fails with
\* LimitsExceeded before a prompt is built or a query made and the run ends; a
\* run with a positive step_limit never makes more than step_limit queries.
C13_LimitsExceededWhenSet ==
    [][ /\ (pc = "top" /\ \/ (0 < step_limit /\ n_calls >= step_limit)
                          \/ (0 < cost_limit /\ cost >= cost_limit))
            => EndsWithLimitsExceeded
        /\ 0 < step_limit' => n_calls' <= step_limit' ]_vars

\* A run ended by its step limit alone, after step_limit queries.
C13_Witness ==
    /\ exit_status = "LimitsExceeded"
    /\ cost_limit = 0
    /\ 0 < step_limit
    /\ n_calls = step_limit

\* ------------------------------------------------------------------------ C14
\* C14: when reflection rejects the pending node and commit_invalid reports
\* overflow, either find_backtrack_target() gives a node, the tree backtracks
\* to it (current becomes that node) and the loop goes on with the action
\* phase, or it gives none and the run ends with NoExplorableBranch; nothing
\* else happens on overflow.
C14_DeadEndProtocol ==
    [][ (Called("_process_reflection")' /\ lastOp'.overflow) =>
           IF lastOp'.target # None
           THEN current' = lastOp'.target /\ pc' = "action"
           ELSE pc' = "exited" /\ exit_status' = "NoExplorableBranch" ]_vars

\* ------------------------------------------------------------------------ C15
\* The actions of a decision are numbered in their declared order.  The step
\* ends the action phase of the decision.
EndsActionPhase == pc \in {"exec", "observe"} /\ pc' \in {"top", "exited"}

\* The number of actions of the decision _execute_command was called with,
\* seen from the step that ends the action phase.
ExecutedAtEnd ==
    IF Called("_execute_command")' THEN Len(lastOp'.done) + 1 ELSE Len(lastOp'.done)

\* C15: within one decision the actions are executed in their declared order,
\* none is executed after the first with a non-zero return code, and however
\* the action phase ends (normal completion, timeout, submission) the temp
\* node's observations hold one entry, in order, for each executed action.
C15_ActionSequencing ==
    [][ /\ Called("_execute_command")' =>
              /\ lastOp'.action = Len(lastOp'.done) + 1
              /\ \A i \in 1..Len(lastOp'.done) :
                    lastOp'.done[i].action = i /\ lastOp'.done[i].returncode = 0
        /\ EndsActionPhase =>
              /\ temp_node' # None
              /\ Len(nodes'[temp_node'].observations) = ExecutedAtEnd
              /\ \A i \in 1..ExecutedAtEnd : nodes'[temp_node'].observations[i].action = i
      ]_vars

\* ------------------------------------------------------------------------ C16
\* The index of the first non-blank line of an output, 0 when all are blank.
FirstNonBlank(output) ==
    LET S == { i \in 1..Len(output) : output[i] \notin Blank }
    IN  IF S = {} THEN 0 ELSE CHOOSE i \in S : \A j \in S : i <= j

NoActionParsed ==
    /\ pc = "action" \/ (pc = "respond" /\ ~has_incoming_op)
    /\ content.n_actions = 0

\* C17: a FormatError (a response with no non-empty action) is raised before
\* create_temp_node: the action phase of that iteration creates no temp node,
\* does not increase the operation count, executes no sandbox command, and the
\* loop continues with the next iteration.
C17_FormatErrorBeforeCreate ==
    [][ NoActionParsed =>
           /\ lastOp' = [op |-> "_process_action", error |-> "FormatError"]
           /\ UNCHANGED <<nodes, all_nodes, current, temp_node>>
           /\ n_operations' = n_operations
           /\ worktree' = worktree
           /\ pc' = "top"
           /\ exit_status' = "" ]_vars

\* A FormatError in an iteration whose reflection had accepted the pending node.
C17_Witness ==
    /\ Called("_process_action")
    /\ lastOp.error = "FormatError"
    /\ pc = "top"
    /\ temp_node = None
    /\ current # Sentinel

\* ------------------------------------------------------------------------ C18
\* C18: after a FormatError or ExecutionTimeout in an iteration, the error text
\* is part of the messages passed to the model query of the next iteration.
C18_ErrorSurfaced ==
    [][ ( /\ Called("query")'
          /\ Len(messages) >= 3
          /\ messages[Len(messages) - 2].content
                \in {<<"format_error_template">>, <<"timeout_template">>} )
        => \E i \in 1..Len(lastOp'.sent) :
              lastOp'.sent[i].content = messages[Len(messages) - 2].content ]_vars

\* ------------------------------------------------------------------------ C19
\* C19: when the sandbox times out on an action, ExecutionTimeout is raised
\* only after observation capture: the pending temp node's observations record
\* the failed action and those executed before it, the tree is otherwise
\* unchanged, and the next iteration reflects on that temp node.
C19_TimeoutAfterCapture ==
    [][ (Called("_execute_command")' /\ lastOp'.outcome = "timeout") =>
           /\ temp_node # None
           /\ temp_node' = temp_node
           /\ Len(nodes'[temp_node].observations) = Len(lastOp'.done) + 1
           /\ \A i \in 1..Len(lastOp'.done) :
                 nodes'[temp_node].observations[i] = lastOp'.done[i]
           /\ nodes'[temp_node].observations[Len(lastOp'.done) + 1].action = lastOp'.action
           /\ UNCHANGED <<all_nodes, current>>
           /\ \A n \in Ids \ {temp_node} : nodes'[n] = nodes[n]
           /\ pc' = "top" ]_vars

\* ------------------------------------------------------------------------ C20
\* C20: every node that reflection commits (as admissible or as invalid)
\* carries in code_change the working-tree diff captured after its own actions
\* executed, on every path of the action phase, the one where an action timed
\* out included.  (Between the end of a node's action phase and its reflection
\* no command runs in the sandbox: the tree reflection finds is the tree the
\* node's actions left.)
C20_CommittedCodeChange ==
    [][ Called("_process_reflection")' =>
           /\ lastOp'.pending # None
           /\ nodes'[lastOp'.pending].code_change = worktree ]_vars

\* ------------------------------------------------------------------------ C21
\* C21: render gives the same text for every permutation of the list of chunks
\* it is handed, the chunks of several files included.
C21_RenderPermutation ==
    Called("render") =>
        \A f \in Permutations(1..Len(lastOp.chunks)) :
            render([i \in 1..Len(lastOp.chunks) |-> lastOp.chunks[f[i]]]) = lastOp.ret

\* ------------------------------------------------------------------------ C22
\* The function definitions of the file that span the line.
FunctionsAround(path, line) ==
    { n \in DOMAIN parse_python(path) :
        /\ parse_python(path)[n].type = "function_definition"
        /\ parse_python(path)[n].start <= line
        /\ line <= parse_python(path)[n].end }

\* The runs of `window` consecutive line numbers with `line` in the middle (for
\* an even window either of the two middles).
CentredWindows(line, window) ==
    { a..(a + window - 1) : a \in { line - (window \div 2), line - ((window - 1) \div 2) } }

\* C22: get_nearby_code_context on a file with lines gives, when no function
\* spans the line, the `window` lines centred at the line that lie in
\* 1..total_lines, not whole_function; when the innermost function spanning the
\* line has at most `window` lines, that function's lines, whole_function;
\* otherwise the `window` lines centred at the line that lie in the function,
\* not whole_function, the line among them.
C22_NearbyCodeContext ==
    Called("get_nearby_code_context") /\ total_lines(lastOp.file_path) > 0 =>
        LET tree == parse_python(lastOp.file_path)
            around == FunctionsAround(lastOp.file_path, lastOp.line_number)
            ret == lastOp.ret
        IN IF around = {}
           THEN /\ ~ret.whole_function
                /\ \E W \in CentredWindows(lastOp.line_number, lastOp.window_size) :
                      Range(ret.lines) = W \cap (1..total_lines(lastOp.file_path))
           ELSE LET fn == CHOOSE n \in around : \A m \in around : tree[m].start <= tree[n].start
                IN IF tree[fn].end - tree[fn].start + 1 <= lastOp.window_size
                   THEN /\ ret.whole_function
                        /\ Range(ret.lines) = tree[fn].start..tree[fn].end
                        /\ Len(ret.lines) = tree[fn].end - tree[fn].start + 1
                   ELSE /\ ~ret.whole_function
                        /\ lastOp.line_number \in Range(ret.lines)
                        /\ \E W \in CentredWindows(lastOp.line_number, lastOp.window_size) :
                              Range(ret.lines) = W \cap (tree[fn].start..tree[fn].end)

\* ------------------------------------------------------------------------ C23
\* C23: get_code_lines on a file with lines gives the lines of the file from
\* `start` to `end` in ascending order, eof exactly when `end` lies beyond the
\* file, whole_function false, no class and no function name.
C23_GetCodeLines ==
    Called("get_code_lines") /\ total_lines(lastOp.file_path) > 0 =>
        LET ret == lastOp.ret
        IN /\ Range(ret.lines) = { l \in 1..total_lines(lastOp.file_path) :
                                     lastOp.start <= l /\ l <= lastOp.end }
           /\ \A i \in 1..Len(ret.lines) : \A j \in 1..Len(ret.lines) :
                 i < j => ret.lines[i] < ret.lines[j]
           /\ ret.eof = (lastOp.end > total_lines(lastOp.file_path))
           /\ ~ret.whole_function
           /\ ret.class_name = "" /\ ret.function = ""

\* A range that starts before line 1 and ends beyond the file: the whole file.
C23_Witness ==
    /\ Called("get_code_lines")
    /\ lastOp.start < 1
    /\ lastOp.end > total_lines(lastOp.file_path)
    /\ total_lines(lastOp.file_path) > 0
    /\ Len(lastOp.ret.lines) = total_lines(lastOp.file_path)
    /\ lastOp.ret.eof

\* ------------------------------------------------------------------------ C24
\* First lines of the compound statements and clauses of the file that span
\* the line.
EnclosingHeaders(path, line) ==
    { parse_python(path)[n].start :
        n \in { m \in DOMAIN parse_python(path) :
                  /\ parse_python(path)[m].type \in statement_blocks \cup clause_blocks
                  /\ parse_python(path)[m].start <= line
                  /\ line <= parse_python(path)[m].end } }

\* The numbers of the lines of file `path` in a rendered text.
RenderedLines(text, path) ==
    UNION { { s.rendered[i].n : i \in { k \in 1..Len(s.rendered) : s.rendered[k].part = "line" } } :
            s \in { t \in Range(text) : t.file_path = path } }

\* C24: the text render gives for a list of chunks has, for every chunk of the
\* list that is not whole_function and every line of it, the line and the first
\* line of every compound statement and clause around it.
C24_BlockHeaders ==
    Called("render") =>
        \A c \in Range(lastOp.chunks) :
            ~c.whole_function =>
                \A l \in Range(c.lines) :
                    {l} \cup EnclosingHeaders(c.file_path, l)
                        \subseteq RenderedLines(lastOp.ret, c.file_path)

\* C24 (amended): the same for every chunk that shares its file, class and
\* function with no whole_function chunk of the list.
C24_BlockHeadersOfPartialGroup ==
    Called("render") =>
        \A c \in Range(lastOp.chunks) :
            (\A d \in Range(lastOp.chunks) : ChunkKey(d) = ChunkKey(c) => ~d.whole_function) =>
                \A l \in Range(c.lines) :
                    {l} \cup EnclosingHeaders(c.file_path, l)
                        \subseteq RenderedLines(lastOp.ret, c.file_path)

\* A line inside a loop inside a function inside a conditional was rendered
\* together with another chunk.
C24_Witness ==
    /\ Called("render")
    /\ Len(lastOp.chunks) = 2
    /\ \E c \in Range(lastOp.chunks) :
          /\ ~c.whole_function
          /\ c.function # ""
          /\ \E l \in Range(c.lines) :
                /\ Cardinality(EnclosingHeaders(c.file_path, l)) >= 3
                /\ EnclosingHeaders(c.file_path, l) \subseteq RenderedLines(lastOp.ret, c.file_path)

\* ------------------------------------------------------------------------ C25
\* The nodes whose dead_path the step changes.
DeadPathChanged == { n \in Ids : nodes'[n].dead_path # nodes[n].dead_path }

\* C25: backtrack_to changes dead_path on one node only, the child of target
\* on the path from current up to target, and leaves every parent link,
\* children list and invalid_ops list as it was.
C25_BacktrackFrame ==
    [][ Called("backtrack_to")' =>
          /\ DOMAIN nodes' = DOMAIN nodes
          /\ Cardinality(DeadPathChanged) = 1
          /\ \A n \in DeadPathChanged :
                /\ nodes[n].parent = lastOp'.target
                /\ n \in Range(WalkToRoot(AM, current))
          /\ \A n \in Ids :
                /\ nodes'[n].parent = nodes[n].parent
                /\ nodes'[n].children = nodes[n].children
                /\ nodes'[n].invalid_ops = nodes[n].invalid_ops ]_vars

\* backtrack_to has flagged a child of its target that has a live child of its
\* own, next to a sibling flagged by an earlier call.
C25_Witness ==
    /\ Called("backtrack_to")
    /\ current = lastOp.target
    /\ ~nodes[current].dead_path
    /\ \E n \in Ids : \E m \in Ids :
          /\ n # m
          /\ nodes[n].parent = current /\ nodes[m].parent = current
          /\ nodes[n].dead_path /\ nodes[m].dead_path
          /\ \E c \in Range(nodes[n].children) : ~nodes[c].dead_path

\* ------------------------------------------------------------------------ C26
\* The nodes reflection has committed.
Committed == { n \in Ids : n # Sentinel /\ n # temp_node }

\* How often node `n` stands in the list `seq`.
Count(seq, n) == Cardinality({ i \in 1..Len(seq) : seq[i] = n })

\* Following parent links from `n` reaches the sentinel within `fuel` links.
RECURSIVE Climbs(_, _)
Climbs(n, fuel) ==
    IF n = Sentinel THEN TRUE
    ELSE IF n = None \/ fuel = 0 THEN FALSE
    ELSE Climbs(nodes[n].parent, fuel - 1)

AsksForReflection(msgs) ==
    msgs # <<>> /\ "reflection_instructions" \in Range(msgs[1].content)

\* C27: the prompt of an iteration holds the reflection instructions exactly
\* when a temp node is pending as it is built; the response is treated as a
\* reflection exactly in the iterations whose prompt holds them; reflection
\* commits the pending node as admissible (last child of current, valid, the
\* new current) unless the decision is "reject", then as invalid (last of
\* current's invalid_ops, not valid, current kept); and the temp node of the
\* iteration is created only once no node is pending.
C27_Reflection ==
    [][ /\ (Called("step")' /\ pc' = "query") =>
              (AsksForReflection(sent') <=> temp_node # None)
        /\ pc = "respond" =>
              (Called("_process_reflection")' <=> AsksForReflection(sent))
        /\ Called("_process_reflection")' =>
              /\ temp_node # None
              /\ temp_node' = None
              /\ nodes'[temp_node].parent = current
              /\ IF content.decision # "reject"
                 THEN /\ nodes'[current].children = Append(nodes[current].children, temp_node)
                      /\ nodes'[current].invalid_ops = nodes[current].invalid_ops
                      /\ nodes'[temp_node].valid = TRUE
                      /\ current' = temp_node
                 ELSE /\ nodes'[current].invalid_ops = Append(nodes[current].invalid_ops, temp_node)
                      /\ nodes'[current].children = nodes[current].children
                      /\ nodes'[temp_node].valid = FALSE
                      /\ current' = current
        /\ (Called("_process_action")' /\ temp_node' # None) =>
              /\ temp_node = None
              /\ temp_node' \notin Ids
      ]_vars

\* A reflection without a decision has committed the pending node as
\* admissible.
C27_Witness ==
    /\ Called("_process_reflection")
    /\ lastOp.valid
    /\ pc = "action"
    /\ content.decision = ""
    /\ current = lastOp.pending
    /\ AsksForReflection(sent)

\* ------------------------------------------------------------------------ C28
\* The events of an iteration by the call that makes them; `claimed` is the
\* order the events are said to come in.
EventRank(op, claimed) ==
    CASE op = "step" -> 1
      [] op = "query" -> 2
      [] op = "_process_reflection" -> 3
      [] op \in {"_process_action", "_execute_command"} -> 4
      [] op = "set_observation" -> IF claimed THEN 5 ELSE 6
      [] op = "_execute_actions" -> IF claimed THEN 6 ELSE 5
      [] OTHER -> 0

\* No event of an iteration comes before an earlier one of the order, and an
\* iteration begins (step) only where the one before has ended.
InOrder(claimed) ==
    /\ ~Called("step")' => EventRank(lastOp'.op, claimed) >= EventRank(lastOp.op, claimed)
    /\ Called("step")' => pc = "top"

\* C28: in every iteration the events come in the order prompt built, model
\* query, reflection, action execution, observations set on the temp node,
\* diff captured into its code_change; the next iteration begins after the
\* last event of this one.
C28_EventOrder == [][InOrder(TRUE)]_vars

\* C28 (amended): the diff is captured before the observations are set on the
\* temp node; an iteration that reaches the capture has queried the model and
\* executed an action before, captures the diff into the temp node's
\* code_change, sets the observations next, and then ends.
C28_EventOrderDiffFirst ==
    [][ /\ InOrder(FALSE)
        /\ Called("query")' => Called("step")
        /\ Called("_process_reflection")' => Called("query")
        /\ Called("_process_action")' => (Called("query") \/ Called("_process_reflection"))
        /\ Called("_execute_command")' => (Called("_process_action") \/ Called("_execute_command"))
        /\ Called("_execute_actions")' =>
              /\ Called("_execute_command")
              /\ temp_node # None
              /\ nodes'[temp_node].code_change = worktree
        /\ Called("_execute_actions") => Called("set_observation")'
        /\ Called("set_observation")' =>
              /\ Called("_execute_actions")
              /\ nodes'[temp_node].observations = lastOp'.done
              /\ pc' = "top"
      ]_vars

\* The observations of two actions were set on a temp node whose code_change
\* already held the captured diff.
C28_Witness ==
    /\ Called("set_observation")
    /\ Len(lastOp.done) = 2
    /\ temp_node # None
    /\ nodes[temp_node].code_change # ""
    /\ nodes[temp_node].observations = lastOp.done

\* ------------------------------------------------------------------------ C29
\* The places of command `c` in the sequence `cmds`.
Places(cmds, c) == { i \in 1..Len(cmds) : cmds[i] = c }

C30_Terminates == (step_limit > 0) ~> (pc = "exited")

\* A run with a step limit ended on LimitsExceeded after as many queries as the
\* limit allows, with a format error and a timeout on its way.
C30_Witness ==
    /\ pc = "exited"
    /\ exit_status = "LimitsExceeded"
    /\ step_limit = StepLimit
    /\ n_calls = step_limit
    /\ cost_limit = 0
    /\ \E i \in 1..Len(messages) : messages[i].content = <<"format_error_template">>
    /\ \E i \in 1..Len(messages) : messages[i].content = <<"timeout_template">>

\* ------------------------------------------------------------------------ C31
\* The step ends run.
EndsRun == pc # "exited" /\ pc' = "exited"

\* The step raises a non-terminal error: FormatError or ExecutionTimeoutError.
RaisesNonTerminal ==
    \/ Called("_process_action")' /\ lastOp'.error = "FormatError"
    \/ Called("_execute_command")' /\ lastOp'.outcome = "timeout"

\* C31: run ends only through LimitsExceeded, Submitted or NoExplorableBranch,
\* with that kind's name as its result and its message as the last user
\* message; a FormatError or an ExecutionTimeout does not end the loop, the
\* next iteration follows it.
C31_TerminalKinds ==
    [][ /\ EndsRun =>
              /\ exit_status' \in {"LimitsExceeded", "Submitted", "NoExplorableBranch"}
              /\ Len(messages') = Len(messages) + 1
              /\ messages'[Len(messages')].role = "user"
        /\ RaisesNonTerminal => pc' = "top" /\ exit_status' = "" ]_vars

\* ------------------------------------------------------------------------ C32
\* The code_chunks of the nodes from the root down to `n`, in that order.
RECURSIVE ChunksDownTo(_)
ChunksDownTo(n) ==
    IF n = None \/ n = Sentinel THEN <<>>
    ELSE ChunksDownTo(nodes[n].parent) \o nodes[n].code_chunks

\* Node `n` was rejected: it stands in some invalid_ops list.
Rejected(n) == \E q \in Ids : n \in Range(nodes[q].invalid_ops)

\* Node `n` is on an abandoned branch: it or a node above it has dead_path set.
Abandoned(n) ==
    \E k \in 0..Cardinality(Ids) :
        Up(n, k) \in Ids /\ nodes[Up(n, k)].dead_path

\* The nodes whose chunks the collected list holds: current and the nodes above.
Contributors == { Up(current, k) : k \in 0..Cardinality(Ids) } \ {None, Sentinel}

\* C32: the chunks collected for a prompt are the default chunks followed by
\* the code_chunks of the nodes from the root to current, in path order; the
\* pending temp node, rejected nodes and nodes of abandoned branches contribute
\* nothing.
C32_CollectedChunks ==
    Called("_collect_code_context_chunks") =>
        /\ lastOp.ret = default_code_chunks \o ChunksDownTo(current)
        /\ \A n \in Ids \ {Sentinel} :
              (n = temp_node \/ Rejected(n) \/ Abandoned(n)) => n \notin Contributors

\* Chunks are collected while a pending node holds a chunk of its own: the
\* list is the default chunk and the chunk of current.
C32_Witness ==
    /\ Called("_collect_code_context_chunks")
    /\ temp_node # None
    /\ nodes[temp_node].code_chunks # <<>>
    /\ current # Sentinel
    /\ nodes[current].code_chunks # <<>>
    /\ default_code_chunks # <<>>
    /\ Len(lastOp.ret) = 2

\* ------------------------------------------------------------------------ C33
\* The node the claim calls active: the temp node when one is pending, else
\* current unless it is the root sentinel (None: no node).
ClaimedActive ==
    IF temp_node # None THEN temp_node
    ELSE IF current # Sentinel THEN current ELSE None

\* C33: a chunk of a built-in tool call is appended to the code_chunks of the
\* active node, a tool-response changes the code_chunks of the active node
\* only; no other node changes, the root sentinel never gets a chunk, and with
\* no active node nothing changes.
C33_AttachedToActive ==
    [][ (Called("_handle_code_chunk")' \/ Called("_attach_code_context_chunks")') =>
           /\ \A n \in Ids : n # ClaimedActive => nodes'[n] = nodes[n]
           /\ (Called("_handle_code_chunk")' /\ ClaimedActive # None) =>
                  nodes'[ClaimedActive].code_chunks
                     = Append(nodes[ClaimedActive].code_chunks, lastOp'.chunk)
           /\ nodes'[Sentinel].code_chunks = <<>>
           /\ DOMAIN nodes' = DOMAIN nodes ]_vars

\* A built-in tool's chunk went to the pending node, not to the real current.
C33_Witness ==
    /\ Called("_handle_code_chunk")
    /\ temp_node # None
    /\ current # Sentinel
    /\ lastOp.active = temp_node
    /\ nodes[temp_node].code_chunks = <<lastOp.chunk>>
    /\ nodes[current].code_chunks = <<>>

\* ------------------------------------------------------------------------ C34
\* The keys of the chunks of a list, and a list without two chunks of one key.
KeysOf(chunks) == { chunk_key(c) : c \in Range(chunks) }
NoTwoOfOneKey(chunks) ==
    \A i, j \in 1..Len(chunks) : chunk_key(chunks[i]) = chunk_key(chunks[j]) => i = j

\* C34: after any tool calls and tool-responses the code_chunks of the active
\* node hold no two chunks of the same key.
C34_NoDuplicateChunks ==
    active_node(AM) # None => NoTwoOfOneKey(nodes[active_node(AM)].code_chunks)

\* C34 as amended: a tool-response leaves the active node's chunks in place and
\* adds behind them one chunk for every key its usable entries bring that the
\* list does not hold yet, and no other.
C34_ToolResponseAddsNoDuplicate ==
    [][ (Called("_attach_code_context_chunks")' /\ lastOp'.active # None) =>
           LET before == nodes[lastOp'.active].code_chunks
               after == nodes'[lastOp'.active].code_chunks
               added == SubSeq(after, Len(before) + 1, Len(after))
               brought == { chunk_key(get_nearby_code_context(c.file_path, c.line_number,
                                                              DefaultWindow)) :
                              c \in Range(lastOp'.usable) }
           IN  /\ SubSeq(after, 1, Len(before)) = before
               /\ NoTwoOfOneKey(added)
               /\ KeysOf(added) = brought \ KeysOf(before) ]_vars

\* A tool-response brought two entries of one key: the active node holds the
\* chunk once.
C34_Witness ==
    /\ Called("_attach_code_context_chunks")
    /\ lastOp.active # None
    /\ Len(lastOp.usable) = 2
    /\ Len(nodes[lastOp.active].code_chunks) = 1

\* ------------------------------------------------------------------------ C35
\* The last call was one of the three methods of the CodeContextManager.
CalledManager ==
    Called("get_nearby_code_context") \/ Called("get_code_lines") \/ Called("render")

\* The resolved path the claim gives for `file_path`: itself when absolute,
\* cwd + "/" + file_path when relative.
ClaimedResolved(file_path) ==
    IF StartsWithSlash(file_path) THEN file_path
    ELSE code_context_manager.cwd \o "/" \o file_path

\* The same, a manager without working directory leaving every path as it is.
ResolvedWhenSet(file_path) ==
    IF code_context_manager.cwd = "" THEN file_path ELSE ClaimedResolved(file_path)

\* The read delegate was called at most once for each path, and the last call
\* called it for resolved paths of the files it was asked for only, its
\* resolved paths all having been read by now.
ReadOnce(resolved(_)) ==
    /\ \A i, j \in 1..Len(reads) : reads[i] = reads[j] => i = j
    /\ CalledManager =>
          /\ Range(lastOp.read) \subseteq { resolved(p) : p \in lastOp.asked }
          /\ { resolved(p) : p \in lastOp.asked } \subseteq Range(reads)

\* C35: over any sequence of get_nearby_code_context, get_code_lines and render
\* calls the read delegate is called at most once for each resolved path, an
\* empty result being cached too; a relative path resolves to cwd + "/" + path,
\* an absolute path to itself.
C35_ReadOncePerResolvedPath == ReadOnce(ClaimedResolved)

\* C35 as amended: the same, a relative path resolving to cwd + "/" + path when
\* the manager has a working directory and to itself when it has none.
C35_ReadOncePerPathWhenCwdSet == ReadOnce(ResolvedWhenSet)

\* A second call for a file, asked for by its relative path, reads nothing:
\* the cache holds the empty content read for its absolute path before.
C35_Witness ==
    /\ Called("get_code_lines")
    /\ lastOp.asked = {"a.py"}
    /\ lastOp.read = <<>>
    /\ reads = <<"/w/a.py">>
    /\ code_context_manager.file_cache["/w/a.py"] = "e.py"
    /\ lastOp.ret.lines = <<>>

\* ------------------------------------------------------------------------ C36
\* C36: when a reflection has rejected the pending node without overflow, the
\* working tree's diff equals current.code_change before the next action is
\* executed: what the rejected action changed is gone from the working tree.
C36_RejectedChangesReverted ==
    [][ (Called("_process_reflection")' /\ ~lastOp'.valid /\ ~lastOp'.overflow) =>
           get_git_diff(worktree') = nodes'[current'].code_change ]_vars

\* ------------------------------------------------------------------------ C37
\* C37: whatever calls built the tree (backtracks going to the node
\* find_backtrack_target returns), every node, the root sentinel included, has
\* at most one child with dead_path = false: get_reasoning_chain never has two
\* live children to choose between.
C37_AtMostOneLiveChild ==
    \A n \in Ids : Len(Live(AM, nodes[n].children)) <= 1

\* A node that a backtrack came back to has a dead child and, committed after
\* it, one live child.
C37_Witness ==
    \E n \in Ids :
        /\ Len(nodes[n].children) >= 2
        /\ Len(Live(AM, nodes[n].children)) = 1
        /\ nodes[n].dead_path_summaries # <<>>

\* ------------------------------------------------------------------------ C38
\* Children links lead from the root sentinel down to `n` (within `fuel` links).
RECURSIVE DescendsFromRoot(_, _)
DescendsFromRoot(n, fuel) ==
    IF n = Sentinel THEN TRUE
    ELSE IF n = None \/ fuel = 0 THEN FALSE
    ELSE /\ nodes[n].parent \in Ids
         /\ n \in Range(nodes[nodes[n].parent].children)
         /\ DescendsFromRoot(nodes[n].parent, fuel - 1)

\* C38: whatever calls built the tree, current is the root sentinel or a node
\* committed by commit_admissible that children links reach from the root (not
\* a rejected node, not the temp node); no node from the root to current has
\* dead_path set; every child of current has dead_path set.
C38_CurrentOnLivePath ==
    /\ current \in Ids
    /\ current # temp_node
    /\ ~Rejected(current)
    /\ DescendsFromRoot(current, Cardinality(Ids))
    /\ ~Abandoned(current)
    /\ \A c \in Range(nodes[current].children) : nodes[c].dead_path

\* A backtrack has come back twice to a committed node: it is current, below
\* the root, and both branches started from it are dead.
C38_Witness ==
    /\ Called("backtrack_to")
    /\ current # Sentinel
    /\ Len(nodes[current].children) >= 2

\* ------------------------------------------------------------------------ C39
\* C39: the code context rendered for a prompt shows, for every file it
\* includes, the content the file has in the sandbox at that moment, also when
\* a command has written the file since it was first read.
C39_ContextShowsSandboxContent ==
    Called("render") =>
        \A i \in 1..Len(lastOp.ret) :
            lastOp.ret[i].content = files[ResolvedWhenSet(lastOp.ret[i].file_path)]

====
